---- MODULE Spec2Model ----
(***************************************************************************)
(* Campaign-content pipeline of the upGrad marketing backend:              *)
(*   - simple_server.py      RealDataEngine and its /api endpoints         *)
(*   - backend/ai_engine.py  AIContentGenerator                            *)
(*   - backend/app.py        FastAPI endpoints over AIContentGenerator     *)
(*   - services/market_intelligence.py  MarketIntelligenceEngine           *)
(*   - api/routes/campaigns.py          router-based generate_campaign     *)
(*   - api/routes/health.py  the router's health check                     *)
(*   - backend/localization.py  LocalizationEngine                         *)
(*   - backend/ml_optimizer.py  CampaignOptimizer                          *)
(*                                                                         *)
(* Python str values are TLA+ strings (Len, SubSeq and \o act on them as   *)
(* len(), slicing and +).  Every non-ASCII code point of a source literal  *)
(* is written "~", one "~" per code point, so lengths are preserved.       *)
(* Optional[int] values are sequences: <<>> is None, <<n>> is the int n.   *)
(***************************************************************************)
EXTENDS Integers, Sequences, FiniteSets, TLC

VARIABLES
    gemini_api_key,     \* RealDataEngine.gemini_api_key is set
    stability_api_key,  \* RealDataEngine.stability_api_key is set
    hiring_data,        \* RealDataEngine.hiring_data: [loaded, rows]
    model,              \* AIContentGenerator.model is not None
    hiring_df,          \* MarketIntelligenceEngine.hiring_df (rows)
    op,                 \* operation whose response is in flight ("idle": none)
    args,               \* its inputs
    res,                \* its outcome
    prev,               \* an earlier fallback-generator call: [args, res]
    optimizer,          \* the CampaignOptimizer object campaign_optimizer
    model_files,        \* the three pickles of _save_model (<<>>: missing)
    feedback_file       \* the entries of performance_feedback.json

vars == <<gemini_api_key, stability_api_key, hiring_data, model, hiring_df,
          op, args, res, prev, optimizer, model_files, feedback_file>>

config == <<gemini_api_key, stability_api_key, hiring_data, model, hiring_df>>

\* prev before any call was kept
NoCall == [args |-> <<>>, res |-> <<>>]

-----------------------------------------------------------------------------
(* Python built-ins on str and int                                         *)

Min(a, b) == IF a <= b THEN a ELSE b

Max(a, b) == IF a >= b THEN a ELSE b

\* s[i] with a 1-based index
At(s, i) == SubSeq(s, i, i)

\* s[:n]
Slice(s, n) == SubSeq(s, 1, Min(n, Len(s)))

\* s[i-1:] for a 1-based i
From(s, i) == SubSeq(s, i, Len(s))

\* str.isspace() for one character (the characters the inputs use)
IsSpace(c) == c \in {" ", "\n", "\t", "\r", "\f"}

\* str.strip()
Strip(s) ==
    LET idx == {i \in 1..Len(s) : ~IsSpace(At(s, i))}
    IN IF idx = {} THEN ""
       ELSE LET lo == CHOOSE i \in idx : \A j \in idx : i <= j
                hi == CHOOSE i \in idx : \A j \in idx : i >= j
            IN SubSeq(s, lo, hi)

\* ''.join(parts[lo-1:hi]), by halves
RECURSIVE ConcatRange(_, _, _)
ConcatRange(parts, lo, hi) ==
    IF lo > hi THEN ""
    ELSE IF lo = hi THEN parts[lo]
    ELSE LET mid == (lo + hi) \div 2
         IN ConcatRange(parts, lo, mid) \o ConcatRange(parts, mid + 1, hi)

\* ''.join(parts)
Concat(parts) == ConcatRange(parts, 1, Len(parts))

\* str.replace(' ', '')
RemoveSpaces(s) ==
    Concat([i \in 1..Len(s) |-> IF At(s, i) = " " THEN "" ELSE At(s, i)])

\* needle in s
Contains(s, needle) ==
    \E i \in 1..(Len(s) - Len(needle) + 1) :
        SubSeq(s, i, i + Len(needle) - 1) = needle

\* str.lower() on the ASCII letters
LowerChar(c) ==
    CASE c = "A" -> "a" [] c = "B" -> "b" [] c = "C" -> "c" [] c = "D" -> "d"
      [] c = "E" -> "e" [] c = "F" -> "f" [] c = "G" -> "g" [] c = "H" -> "h"
      [] c = "I" -> "i" [] c = "J" -> "j" [] c = "K" -> "k" [] c = "L" -> "l"
      [] c = "M" -> "m" [] c = "N" -> "n" [] c = "O" -> "o" [] c = "P" -> "p"
      [] c = "Q" -> "q" [] c = "R" -> "r" [] c = "S" -> "s" [] c = "T" -> "t"
      [] c = "U" -> "u" [] c = "V" -> "v" [] c = "W" -> "w" [] c = "X" -> "x"
      [] c = "Y" -> "y" [] c = "Z" -> "z" [] OTHER -> c

Lower(s) == Concat([i \in 1..Len(s) |-> LowerChar(At(s, i))])

UpperChar(c) ==
    CASE c = "a" -> "A" [] c = "b" -> "B" [] c = "c" -> "C" [] c = "d" -> "D"
      [] c = "e" -> "E" [] c = "f" -> "F" [] c = "g" -> "G" [] c = "h" -> "H"
      [] c = "i" -> "I" [] c = "j" -> "J" [] c = "k" -> "K" [] c = "l" -> "L"
      [] c = "m" -> "M" [] c = "n" -> "N" [] c = "o" -> "O" [] c = "p" -> "P"
      [] c = "q" -> "Q" [] c = "r" -> "R" [] c = "s" -> "S" [] c = "t" -> "T"
      [] c = "u" -> "U" [] c = "v" -> "V" [] c = "w" -> "W" [] c = "x" -> "X"
      [] c = "y" -> "Y" [] c = "z" -> "Z" [] OTHER -> c

\* str.title: a letter after a character that is not a letter is made upper
\* case, every other letter lower case
Title(s) ==
    LET Cased(c) == LowerChar(c) # c \/ UpperChar(c) # c
    IN Concat([i \in 1..Len(s) |->
               IF i = 1 \/ ~Cased(At(s, i - 1))
               THEN UpperChar(At(s, i)) ELSE LowerChar(At(s, i))])

\* sum of a sequence of integers
RECURSIVE SumSeq(_)
SumSeq(q) == IF q = <<>> THEN 0 ELSE Head(q) + SumSeq(Tail(q))

-----------------------------------------------------------------------------
(* simple_server.py : RealDataEngine                                       *)

\* the list hooks (the five emoji are five different code points)
Hooks(course, city, positions) ==
    << "~ BREAKING: " \o course \o " market explodes in " \o city \o "!",
       "~ " \o city \o " professionals: Your " \o course \o " moment is NOW!",
       "~ " \o ToString(positions) \o "+ " \o course
            \o " opportunities just opened in " \o city,
       "~ " \o course \o " boom hits " \o city \o " - Are you ready?",
       "~ " \o city \o "'s " \o course \o " revolution starts with YOU!" >>

\* the list value_props
ValueProps ==
    << "Industry-aligned curriculum designed by experts",
       "Job placement assistance with 500+ hiring partners",
       "Learn from industry leaders and practitioners",
       "Hands-on projects with real-world applications",
       "Career transformation in just 6-12 months" >>

\* the list urgency_elements
UrgencyElements ==
    << "Limited seats available - Apply before they're gone!",
       "Early bird discount ends soon!",
       "Next batch starts in 2 weeks - Secure your spot!",
       "Join 50,000+ successful career changers!",
       "Don't let this opportunity pass you by!" >>

\* pool[variant_number % len(pool)] (Python lists are 0-based)
SelectVariantMutant(pool, variant_number) ==
    pool[((variant_number - 1) % Len(pool)) + 1]

\* the selection drifts with the calls served before
SelectVariantDrift(pool, variant_number) ==
    pool[((variant_number + (IF prev = NoCall THEN 0 ELSE 1)) % Len(pool)) + 1]

SelectVariant(pool, variant_number) == pool[(variant_number % Len(pool)) + 1]

\* the three f-string templates of _generate_fallback_content
FormalTemplate(hook, value_prop, course, city, positions, companies) ==
    hook \o "\n\nDear Professional,\n\nWe're excited to share that "
    \o ToString(companies) \o " leading companies in " \o city
    \o " are actively seeking " \o course \o " professionals. With "
    \o ToString(positions)
    \o "+ positions available, this represents a significant career opportunity.\n\n~ "
    \o value_prop
    \o "\n~ Comprehensive skill development program\n~ Industry-recognized certification\n\n"
    \o "We invite you to explore how upGrad can help you capitalize on this market demand."
    \o "\n\nBest regards,\nupGrad Team"

UrgentTemplate(hook, value_prop, urgency, course, city, positions, companies) ==
    "~ " \o hook \o "\n\n~ URGENT ALERT: " \o ToString(positions) \o "+ " \o course
    \o " jobs in " \o city \o " are being SNATCHED UP FAST!\n\n"
    \o ToString(companies) \o " TOP COMPANIES are hiring RIGHT NOW:\n"
    \o "~ Google ~ Microsoft ~ Amazon ~ Flipkart ~ And more!\n\n"
    \o "~ Salaries up to ~25 LPA!\n~ " \o value_prop \o "\n~ " \o urgency
    \o "\n\n~ DON'T MISS OUT - These opportunities won't wait!\n\n"
    \o "~ APPLY NOW: [Link]\n\n#UrgentHiring #" \o city \o "Jobs #"
    \o RemoveSpaces(course) \o "Careers"

BalancedTemplate(hook, value_prop, urgency, course, city, positions, companies) ==
    hook \o "\n\nHey " \o city \o " professionals! ~\n\nThe " \o course
    \o " job market is absolutely booming right now! Here's what's happening:\n\n"
    \o "~ Market Snapshot:\n~ " \o ToString(positions) \o "+ open positions\n~ "
    \o ToString(companies) \o " companies actively hiring\n"
    \o "~ Average salary growth: 40-60%\n"
    \o "~ High demand, low supply = YOUR opportunity!\n\n"
    \o "~ Why upGrad?\n~ " \o value_prop
    \o "\n~ Live classes with industry experts\n"
    \o "~ 1:1 mentorship and career guidance\n~ Job guarantee program*\n\n~ "
    \o urgency
    \o "\n\nReady to transform your career? Let's make it happen!\n\nApply now: [Link]"

FallbackBandMutant(tone_scale) ==
    IF tone_scale < 3 THEN "formal"
    ELSE IF tone_scale >= 8 THEN "urgent"
    ELSE "balanced"

\* the tone branch of _generate_fallback_content
FallbackBand(tone_scale) ==
    IF tone_scale <= 3 THEN "formal"
    ELSE IF tone_scale >= 8 THEN "urgent"
    ELSE "balanced"

\* RealDataEngine._generate_fallback_content
RealFallbackContent(course, city, positions, companies, tone_scale, variant_number) ==
    LET hook == SelectVariant(Hooks(course, city, positions), variant_number)
        value_prop == SelectVariant(ValueProps, variant_number)
        urgency == SelectVariant(UrgencyElements, variant_number)
        band == FallbackBand(tone_scale)
    IN IF band = "formal"
       THEN FormalTemplate(hook, value_prop, course, city, positions, companies)
       ELSE IF band = "urgent"
       THEN UrgentTemplate(hook, value_prop, urgency, course, city, positions, companies)
       ELSE BalancedTemplate(hook, value_prop, urgency, course, city, positions, companies)

\* the tone branch of generate_content: [tone_style, urgency_level]
ToneStyle(tone_scale) ==
    IF tone_scale <= 3
    THEN [tone_style |-> "professional, formal, and informative",
          urgency_level |-> "low urgency"]
    ELSE IF tone_scale >= 8
    THEN [tone_style |-> "urgent, compelling, and action-oriented with FOMO elements",
          urgency_level |-> "high urgency"]
    ELSE [tone_style |-> "engaging, motivational, and persuasive",
          urgency_level |-> "moderate urgency"]

-----------------------------------------------------------------------------
(* Tables.  A row of the hiring sheet: company, city, positions, salary.   *)

NoTable == [loaded |-> FALSE, rows |-> <<>>]

\* a loaded company_hiring_data sheet (simple_server reads the columns by name)
HiringSheet ==
    [loaded |-> TRUE,
     rows |-> << [city |-> "Bangalore", positions |-> 120, salary |-> "~15-25 LPA"],
                 [city |-> "Delhi NCR", positions |-> 300, salary |-> "~10-18 LPA"],
                 [city |-> "Bangalore", positions |-> 45,  salary |-> "~15-25 LPA"],
                 [city |-> "City",      positions |-> 0,   salary |-> "Salary"],
                 [city |-> "Pune",      positions |-> 900, salary |-> "~8-12 LPA"] >>]

\* re.compile(pat) fails: parentheses that do not balance
RECURSIVE ParenDepthBad(_, _)
ParenDepthBad(pat, depth) ==
    IF pat = "" THEN depth # 0
    ELSE IF At(pat, 1) = "(" THEN ParenDepthBad(From(pat, 2), depth + 1)
    ELSE IF At(pat, 1) = ")"
    THEN depth = 0 \/ ParenDepthBad(From(pat, 2), depth - 1)
    ELSE ParenDepthBad(From(pat, 2), depth)

RegexError(pat) == ParenDepthBad(pat, 0)

RECURSIVE RemoveParens(_)
RemoveParens(s) ==
    IF s = "" THEN ""
    ELSE (IF At(s, 1) \in {"(", ")"} THEN "" ELSE At(s, 1)) \o RemoveParens(From(s, 2))

\* Series.str.contains(pat, case=False) on one cell, for a pattern of letters,
\* spaces and parentheses (a group matches what its body matches)
StrContains(cell, pat) == Contains(Lower(cell), Lower(RemoveParens(pat)))

\* the hard-coded table at the end of RealDataEngine.get_city_insights
CityMultipliers(city) ==
    CASE city = "Bangalore" -> [positions |-> 2500, companies |-> 85]
      [] city = "Mumbai"    -> [positions |-> 1800, companies |-> 62]
      [] city = "Delhi NCR" -> [positions |-> 2200, companies |-> 78]
      [] city = "Hyderabad" -> [positions |-> 1600, companies |-> 55]
      [] city = "Chennai"   -> [positions |-> 1400, companies |-> 48]
      [] city = "Pune"      -> [positions |-> 1200, companies |-> 42]
      [] city = "Ahmedabad" -> [positions |-> 800,  companies |-> 28]
      [] city = "Kolkata"   -> [positions |-> 900,  companies |-> 32]
      [] OTHER              -> [positions |-> 1000, companies |-> 35]

RealFallbackInsightsMutant(city) ==
    [error |-> "No data found for city: " \o city, source |-> "fallback"]

\* the return statement after the hard-coded table
RealFallbackInsights(city) ==
    [positions_available |-> CityMultipliers(city).positions,
     companies_hiring |-> CityMultipliers(city).companies,
     avg_salary |-> "~12-18 LPA",
     top_skills |-> <<"Python", "Machine Learning", "Data Analysis">>,
     growth_rate |-> "+15% YoY",
     source |-> "fallback"]

\* RealDataEngine.get_city_insights for the table data; "source" is not a
\* key of the returned dict: it records which return statement was taken
RealCityInsightsOf(data, city) ==
    LET IsClean(r) == r.city # "City" /\ Len(r.city) > 2
        clean_data == SelectSeq(data.rows, IsClean)
        Matches(r) == StrContains(r.city, city)
        city_data == SelectSeq(clean_data, Matches)
        \* Series.mode().iloc[0]: the most frequent value (the sheets have
        \* one mode)
        Mode(q) ==
            LET Count(v) == Cardinality({i \in 1..Len(q) : q[i] = v})
            IN CHOOSE v \in {q[i] : i \in 1..Len(q)} :
                   \A w \in {q[i] : i \in 1..Len(q)} : Count(v) >= Count(w)
    IN IF data.loaded /\ ~RegexError(city) /\ Len(city_data) > 0
       THEN [positions_available |->
                 SumSeq([i \in 1..Len(city_data) |-> city_data[i].positions]),
             companies_hiring |-> Len(city_data),
             avg_salary |-> Mode([i \in 1..Len(city_data) |-> city_data[i].salary]),
             top_skills |-> <<"Python", "Machine Learning", "Data Analysis">>,
             growth_rate |-> "+15% YoY",
             source |-> "rows"]
       ELSE RealFallbackInsights(city)

RealCityInsights(city) == RealCityInsightsOf(hiring_data, city)

-----------------------------------------------------------------------------
(* The external text model, as seen by one request: which of the request's *)
(* calls raise, and the text the others return.                            *)

\* response.text of the primary call
AiTexts == {"Subject: Your AI career\n\nJoin upGrad today!"}

\* the behaviours of the service over the n calls of one request: the set of
\* calls (by index) whose primary call raises, and whether the translation
\* call raises
ServiceScripts(n) ==
    [failing : {{}, 1..n} \cup {{k} : k \in 1..n},
     translation_fails : BOOLEAN,
     text : AiTexts]

Raised(kind) == [raised |-> TRUE, error |-> kind]

Returned(v) == [raised |-> FALSE, value |-> v]

\* RealDataEngine.generate_content; tone_scale and language are the keyword
\* arguments as passed (<<>>: None), primary_fails/translation_fails the
\* behaviour of the two model calls
RealGenerateContent(course, city, tone_scale, language, variant_number, primary_fails, translation_fails, text) ==
    LET market_insights == RealCityInsights(city)
        positions == market_insights.positions_available
        companies == market_insights.companies_hiring
    IN IF tone_scale = <<>> THEN Raised("TypeError")     \* None <= 3
       ELSE IF language = <<>> THEN Raised("TypeError")  \* 'English' in None
       ELSE LET fallback == RealFallbackContent(course, city, positions, companies,
                                                tone_scale[1], variant_number)
                tone == ToneStyle(tone_scale[1])
            IN IF ~gemini_api_key
               THEN Returned([content |-> fallback, path |-> "no_key", tone |-> tone])
               ELSE IF primary_fails
               THEN Returned([content |-> fallback, path |-> "except", tone |-> tone])
               ELSE IF language[1] \in {"Hindi", "Multi"}
               THEN IF translation_fails
                    THEN Returned([content |-> fallback, path |-> "except",
                                   tone |-> tone])
                    ELSE Returned([content |-> text \o "\n\n~~ "
                                                \o Slice("Aaj hi judiye", 100) \o "...",
                                   path |-> "ai", tone |-> tone])
               ELSE Returned([content |-> text, path |-> "ai", tone |-> tone])

\* f"{n / 10}" for a number of tenths
FmtTenths(t) == ToString(t \div 10) \o "." \o ToString(t % 10)

\* round(n / d) for non-negative n and positive d
RoundDiv(n, d) == (2 * n + d) \div (2 * d)

\* f"{n:,}" for a non-negative int
RECURSIVE FmtThousands(_)
FmtThousands(n) ==
    IF n < 1000 THEN ToString(n)
    ELSE LET low == n % 1000
         IN FmtThousands(n \div 1000) \o ","
                \o (IF low < 10 THEN "00" ELSE IF low < 100 THEN "0" ELSE "")
                \o ToString(low)

VariantCap == 10

\* the predictions dict of simple_server.generate_campaign
RealPredictions(course, primary_city, market_data) ==
    LET city_multiplier == IF primary_city \in {"Bangalore", "Mumbai", "Delhi NCR"}
                           THEN 12 ELSE 10
        course_multiplier == IF Contains(course, "AI") \/ Contains(course, "Data")
                             THEN 13 ELSE 11
        predicted_ctr == RoundDiv(28 * city_multiplier * course_multiplier, 100)
        predicted_conversion == RoundDiv(predicted_ctr * 35, 10)
        predicted_roas == 28 + RoundDiv(predicted_ctr * 5, 10)
    IN [ctr |-> FmtTenths(predicted_ctr) \o "%",
        conversion_rate |-> FmtTenths(predicted_conversion) \o "%",
        roas |-> FmtTenths(predicted_roas) \o "x",
        cost_per_conversion |-> "~" \o ToString(800 + predicted_ctr * 5),
        estimated_reach |-> FmtThousands(market_data.positions_available * 10),
        confidence |-> IF market_data.positions_available > 1500
                       THEN "High" ELSE "Medium"]

\* the loop of generate_campaign: calls 1..n of generate_content
RealVariantCalls(request, primary_city, n, script) ==
    [i \in 1..n |->
        RealGenerateContent(request.course, primary_city, request.tone_scale,
                            request.language, i, i \in script.failing,
                            script.translation_fails, script.text)]

\* simple_server.generate_campaign: the HTTP response (status code, status
\* and the variants, market_context and predictions of its data)
RealGenerateCampaign(request, script) ==
    LET cities == IF request.cities # <<>> THEN request.cities ELSE <<request.city>>
        primary_city == cities[1]
        market_data == RealCityInsights(primary_city)
        looped == request.variants # <<>> /\ request.variants[1] # 0
        num_variants == IF looped THEN Min(request.variants[1], VariantCap) ELSE 1
        calls == IF looped
                 THEN RealVariantCalls(request, primary_city,
                                       Max(num_variants, 0), script)
                 ELSE << RealGenerateContent(request.course, primary_city, <<5>>,
                                             <<"English">>, 1, 1 \in script.failing,
                                             script.translation_fails, script.text) >>
    IN IF \E i \in 1..Len(calls) : calls[i].raised
       THEN [status_code |-> 500, status |-> "error", variants |-> <<>>,
             market_context |-> market_data, predictions |-> <<>>]
       ELSE [status_code |-> 200, status |-> "success",
             variants |-> [i \in 1..Len(calls) |-> calls[i].value.content],
             market_context |-> market_data,
             predictions |-> RealPredictions(request.course, primary_city, market_data)]

-----------------------------------------------------------------------------
(* backend/ai_engine.py : AIContentGenerator                               *)

\* dict.get(key, default) on a record
Get(d, key, default) == IF key \in DOMAIN d THEN d[key] ELSE default

\* the dict {}
EmptyDict == [k \in {} |-> 0]

\* AIContentGenerator._generate_fallback_content
EngineFallbackContent(course, city, campaign_type, market_context) ==
    LET city_data == Get(market_context, "city_data", EmptyDict)
        positions == ToString(Get(city_data, "total_positions", 1000))
        companies == ToString(Get(city_data, "companies_hiring", 50))
        tag == RemoveSpaces(city)
        ai_ml ==
          [subject |-> city \o "'s AI Boom: " \o positions \o "+ Jobs - Upskill Now!",
           body |-> "Hey [Name], " \o city
                \o " is experiencing unprecedented AI/ML growth with " \o positions
                \o "+ positions across " \o companies
                \o "+ companies. Join upGrad's comprehensive " \o course
                \o " program and ride the wave of AI transformation. Industry experts, "
                \o "hands-on projects, and guaranteed career support. "
                \o "Limited seats - enroll today!",
           social |-> "~~~~ " \o city \o " AI revolution is HERE! " \o positions
                \o "+ jobs, " \o companies
                \o "+ companies hiring. Ready to level up? #upGrad #AIJobs #"
                \o tag \o "Tech",
           cta |-> "Enroll in AI/ML Program - Limited Seats!"]
        data_science ==
          [subject |-> city \o " Data Gold Rush: " \o positions \o "+ Opportunities!",
           body |-> "[Name], " \o city \o "'s data landscape is exploding with "
                \o positions \o "+ opportunities across " \o companies
                \o "+ companies! Master Data Science with upGrad's industry-aligned "
                \o "program. Real projects, expert mentorship, and career "
                \o "transformation guaranteed. Your data-driven future starts now!",
           social |-> "~~~~ " \o city \o " needs data wizards! " \o positions
                \o "+ positions, " \o companies
                \o "+ companies. Become the data hero! #DataScience #upGrad #" \o tag,
           cta |-> "Start Your Data Science Journey Today!"]
        generative_ai ==
          [subject |-> city \o " GenAI Boom: Create Your Future Today!",
           body |-> "Ready to shape the future, [Name]? " \o city
                \o "'s GenAI sector is booming with " \o positions
                \o "+ opportunities! Master Generative AI with upGrad and unlock "
                \o "unlimited potential. From ChatGPT to image generation - learn it "
                \o "all. Transform your career in the AI revolution!",
           social |-> "~~~ GenAI is transforming " \o city
                \o "! Create, innovate, earn big. Join the revolution! "
                \o "#GenerativeAI #upGrad #" \o tag,
           cta |-> "Master Generative AI - Enroll Now!"]
        template == CASE course = "Data Science" -> data_science
                      [] course = "Generative AI" -> generative_ai
                      [] OTHER -> ai_ml
    IN [email_subject |-> template.subject,
        email_body |-> template.body,
        social_post |-> template.social,
        call_to_action |-> template.cta,
        key_benefits |-> << "Access to " \o positions \o "+ job opportunities",
                            "Industry-expert led curriculum",
                            "Guaranteed career support" >>]

\* re.IGNORECASE match of a literal label at 1-based position i
LabelAt(text, i, label) ==
    /\ i + Len(label) - 1 <= Len(text)
    /\ Lower(SubSeq(text, i, i + Len(label) - 1)) = Lower(label)

\* least element of a non-empty set of integers
Least(S) == CHOOSE x \in S : \A y \in S : x <= y

Greatest(S) == CHOOSE x \in S : \A y \in S : x >= y

\* index of the first "\n" at or after p, Len(text) + 1 when there is none
LineEnd(text, p) ==
    LET nl == {j \in p..Len(text) : At(text, j) = "\n"}
    IN IF nl = {} THEN Len(text) + 1 ELSE Least(nl)

\* length of the run of whitespace that starts at p
WsRun(text, p) ==
    LET stop == {j \in p..Len(text) : ~IsSpace(At(text, j))}
    IN IF stop = {} THEN Len(text) + 1 - p ELSE Least(stop) - p

\* re.search(r'LABEL\s*(.+)', text, re.IGNORECASE): "\s*" is greedy and gives
\* back characters until "." (anything but "\n") can match; ".+" then runs to
\* the end of the line
SearchGreedy(text, label) ==
    LET Start(i) == i + Len(label)
        Keep(i) == {k \in 0..WsRun(text, Start(i)) :
                       /\ Start(i) + k <= Len(text)
                       /\ At(text, Start(i) + k) # "\n"}
        hits == {i \in 1..Len(text) : LabelAt(text, i, label) /\ Keep(i) # {}}
    IN IF hits = {} THEN [found |-> FALSE, group |-> ""]
       ELSE LET i == Least(hits)
                from == Start(i) + Greatest(Keep(i))
            IN [found |-> TRUE,
                group |-> SubSeq(text, from, LineEnd(text, from) - 1)]

\* re.search(r'LABEL\s*(.+?)(?=STOP|$)', text, flags): the lazy group grows
\* one character at a time until the lookahead holds; "$" holds at the end of
\* the text and before a final "\n"; without re.DOTALL the group cannot
\* cross a "\n"
SearchLazy(text, label, stop, dotall) ==
    LET Start(i) == i + Len(label)
        Look(q) == \/ q = Len(text) + 1
                   \/ (q = Len(text) /\ At(text, q) = "\n")
                   \/ LabelAt(text, q, stop)
        Limit(from) == IF dotall THEN Len(text) + 1 ELSE LineEnd(text, from)
        Ends(from) == {q \in (from + 1)..Limit(from) : Look(q)}
        Keep(i) == {k \in 0..WsRun(text, Start(i)) :
                       /\ Start(i) + k <= Len(text)
                       /\ Ends(Start(i) + k) # {}}
        hits == {i \in 1..Len(text) : LabelAt(text, i, label) /\ Keep(i) # {}}
    IN IF hits = {} THEN [found |-> FALSE, group |-> ""]
       ELSE LET i == Least(hits)
                from == Start(i) + Greatest(Keep(i))
            IN [found |-> TRUE,
                group |-> SubSeq(text, from, Least(Ends(from)) - 1)]

\* str.split('|')
RECURSIVE SplitBar(_)
SplitBar(s) ==
    LET bars == {i \in 1..Len(s) : At(s, i) = "|"}
    IN IF bars = {} THEN <<s>>
       ELSE <<SubSeq(s, 1, Least(bars) - 1)>> \o SplitBar(From(s, Least(bars) + 1))

\* q[:n] on a list
Take(q, n) == SubSeq(q, 1, Min(n, Len(q)))

SubjectLimit == 60

SocialLimit == 280

BenefitLimit == 3

ParseBenefitsMutant(benefits_match) ==
    IF benefits_match.found
    THEN LET split == SplitBar(Strip(benefits_match.group))
         IN Take([i \in 1..Len(split) |-> Strip(split[i])]
                 \o <<"Career advancement", "Salary increase", "Industry recognition">>,
                 BenefitLimit)
    ELSE <<"Career advancement", "Salary increase", "Industry recognition">>

\* the "Parse benefits" block of _parse_ai_response and its benefits[:3]
ParseBenefits(benefits_match) ==
    IF benefits_match.found
    THEN LET split == SplitBar(Strip(benefits_match.group))
         IN Take([i \in 1..Len(split) |-> Strip(split[i])], BenefitLimit)
    ELSE Take(<<"Career advancement", "Salary increase", "Industry recognition">>,
              BenefitLimit)

\* AIContentGenerator._parse_ai_response; ai_response is [kind, text] for a
\* str and [kind, dict] for a dict (re.search raises TypeError on a dict,
\* which the except clause turns into the fallback for an empty context)
ParseAiResponse(ai_response, course, city) ==
    IF ai_response.kind # "text"
    THEN EngineFallbackContent(course, city, "Email", EmptyDict)
    ELSE LET text == ai_response.text
             subject_match == SearchGreedy(text, "SUBJECT:")
             body_match == SearchLazy(text, "BODY:", "SOCIAL:", TRUE)
             social_match == SearchLazy(text, "SOCIAL:", "CTA:", FALSE)
             cta_match == SearchLazy(text, "CTA:", "BENEFITS:", FALSE)
             benefits_match == SearchGreedy(text, "BENEFITS:")
             email_subject ==
                 IF subject_match.found THEN Strip(subject_match.group)
                 ELSE city \o " " \o course \o " Opportunity - Transform Your Career!"
             email_body ==
                 IF body_match.found THEN Strip(body_match.group)
                 ELSE "Exciting " \o course \o " opportunities in " \o city
                      \o ". Join upGrad today!"
             social_post ==
                 IF social_match.found THEN Strip(social_match.group)
                 ELSE "~~~~ " \o course \o " opportunities in " \o city \o "! #upGrad"
             call_to_action ==
                 IF cta_match.found THEN Strip(cta_match.group)
                 ELSE "Enroll Now - Limited Seats!"
         IN [email_subject |-> Slice(email_subject, SubjectLimit),
             email_body |-> email_body,
             social_post |-> Slice(social_post, SocialLimit),
             call_to_action |-> call_to_action,
             key_benefits |-> ParseBenefits(benefits_match)]

PredictPerformanceMutant(course, city, campaign_type, market_context) ==
    LET multiplier ==
            CASE course = "AI/ML" -> [ctr |-> 14, conversion |-> 13, roas |-> 13, cost |-> 8]
              [] course = "Generative AI" ->
                     [ctr |-> 12, conversion |-> 11, roas |-> 11, cost |-> 9]
              [] course = "MSc Finance" ->
                     [ctr |-> 9, conversion |-> 9, roas |-> 9, cost |-> 11]
              [] OTHER -> [ctr |-> 11, conversion |-> 10, roas |-> 10, cost |-> 10]
        city_data == Get(market_context, "city_data", EmptyDict)
        market_score == Get(city_data, "market_score", 500)
        boost == 2000 + market_score
    IN [ctr |-> FmtTenths(RoundDiv(120 * multiplier.ctr * boost, 20000)) \o "%",
        conversion_rate |->
            FmtTenths(RoundDiv(50 * multiplier.conversion * boost, 20000)) \o "%",
        roas |-> FmtTenths(RoundDiv(32 * multiplier.roas * boost, 20000)) \o "x",
        cost_per_conversion |->
            "~~~" \o ToString((300 * multiplier.cost * boost) \div (10 * 2000))]

\* AIContentGenerator._predict_performance.  market_score is carried in
\* hundredths (500 is the default 5); market_boost = (2000 + score) / 2000.
\* The four strings are the f-string renderings, rounded to one decimal.
PredictPerformance(course, city, campaign_type, market_context) ==
    LET multiplier ==
            CASE course = "AI/ML" -> [ctr |-> 14, conversion |-> 13, roas |-> 13, cost |-> 8]
              [] course = "Generative AI" ->
                     [ctr |-> 12, conversion |-> 11, roas |-> 11, cost |-> 9]
              [] course = "MSc Finance" ->
                     [ctr |-> 9, conversion |-> 9, roas |-> 9, cost |-> 11]
              [] OTHER -> [ctr |-> 11, conversion |-> 10, roas |-> 10, cost |-> 10]
        city_data == Get(market_context, "city_data", EmptyDict)
        market_score == Get(city_data, "market_score", 500)
        boost == 2000 + market_score
    IN [ctr |-> FmtTenths(RoundDiv(120 * multiplier.ctr * boost, 20000)) \o "%",
        conversion_rate |->
            FmtTenths(RoundDiv(50 * multiplier.conversion * boost, 20000)) \o "%",
        roas |-> FmtTenths(RoundDiv(32 * multiplier.roas * boost, 20000)) \o "x",
        cost_per_conversion |->
            "~~~" \o ToString((300 * multiplier.cost * 2000) \div (10 * boost))]

\* dict with one more key
WithKey(d, key, v) ==
    [k \in DOMAIN d \cup {key} |-> IF k = key THEN v ELSE d[k]]

\* AIContentGenerator.generate_campaign_content; reply is the behaviour of
\* the Gemini call ([kind |-> "raise"] or a text); "path" is not a key of the
\* returned dict: it records which return statement was taken
GenerateCampaignContent(course, city, campaign_type, market_context, reply) ==
    IF model /\ reply.kind = "raise"
    THEN [content |-> EngineFallbackContent(course, city, campaign_type, market_context),
          path |-> "except"]
    ELSE LET content ==
                 IF model THEN [kind |-> "text", text |-> reply.text]
                 ELSE [kind |-> "dict",
                       dict |-> EngineFallbackContent(course, city, campaign_type,
                                                      market_context)]
             structured_content == ParseAiResponse(content, course, city)
         IN [content |-> WithKey(structured_content, "predictions",
                                 PredictPerformance(course, city, campaign_type,
                                                    market_context)),
             path |-> IF model THEN "ai" ELSE "no_model"]

-----------------------------------------------------------------------------
(* services/market_intelligence.py : MarketIntelligenceEngine              *)

\* a loaded hiring table (after _preprocess_data); skills_technologies is
\* the free-text column, <<>> where the cell is empty
HiringTable ==
    [loaded |-> TRUE,
     rows |-> << [city |-> "Bangalore", positions_available |-> 120,
                  skills_technologies |-> <<"Python, SQL, aws">>],
                 [city |-> "Delhi Ncr", positions_available |-> 300,
                  skills_technologies |-> <<>>],
                 [city |-> "Bangalore", positions_available |-> 45,
                  skills_technologies |-> <<"AWS , python,,machine learning">>],
                 [city |-> "Pune",      positions_available |-> 1900,
                  skills_technologies |-> <<"Java">>] >>]

\* a table drawn by _create_dummy_data
DummyTable ==
    [loaded |-> TRUE,
     rows |-> << [city |-> "Mumbai",    positions_available |-> 57,
                  skills_technologies |-> <<"Python, AI/ML, DevOps">>],
                 [city |-> "Bangalore", positions_available |-> 99,
                  skills_technologies |-> <<"DevOps, DevOps, Data Science">>],
                 [city |-> "Chennai",   positions_available |-> 3,
                  skills_technologies |-> <<"Cybersecurity, Cloud Computing, AI/ML">>] >>]

\* the pieces of s between the commas, in order
SplitComma(s) ==
    LET commas == {i \in 1..Len(s) : At(s, i) = ","}
        starts == {1} \cup {i + 1 : i \in commas}
        EndOf(b) == Least({i \in commas \cup {Len(s) + 1} : i >= b}) - 1
        RECURSIVE Pieces(_)
        Pieces(bs) ==
            IF bs = {} THEN <<>>
            ELSE LET b == Least(bs)
                 IN <<SubSeq(s, b, EndOf(b))>> \o Pieces(bs \ {b})
    IN Pieces(starts)

\* MarketIntelligenceEngine._parse_skills
ParseSkills(skills_str) ==
    IF skills_str = <<>> THEN <<>>
    ELSE LET skills == SplitComma(skills_str[1])
             Named(skill) == Strip(skill) # ""
             kept == SelectSeq(skills, Named)
         IN [i \in 1..Len(kept) |-> Title(Strip(kept[i]))]

\* the skills_list column of the rows, flattened (all_skills)
RECURSIVE AllSkills(_)
AllSkills(rows) ==
    IF rows = <<>> THEN <<>>
    ELSE ParseSkills(Head(rows).skills_technologies) \o AllSkills(Tail(rows))

\* Counter(items): the distinct items in the order they are first seen, each
\* with the number of times it occurs
CounterOf(items) ==
    LET IsFirst(i) == \A j \in 1..(i - 1) : items[j] # items[i]
        firsts == {i \in 1..Len(items) : IsFirst(i)}
        RECURSIVE Entries(_)
        Entries(is) ==
            IF is = {} THEN <<>>
            ELSE LET i == Least(is)
                 IN <<[skill |-> items[i],
                       count |-> Cardinality({j \in 1..Len(items) : items[j] = items[i]})]>>
                    \o Entries(is \ {i})
    IN Entries(firsts)

InsertByCountMutant(sorted, e) ==
    LET k == Cardinality({i \in 1..Len(sorted) : sorted[i].count > e.count})
    IN SubSeq(sorted, 1, k) \o <<e>> \o SubSeq(sorted, k + 1, Len(sorted))

\* one step of a stable sort by descending count: e goes after every entry
\* whose count is at least its own
InsertByCount(sorted, e) ==
    LET k == Cardinality({i \in 1..Len(sorted) : sorted[i].count >= e.count})
    IN SubSeq(sorted, 1, k) \o <<e>> \o SubSeq(sorted, k + 1, Len(sorted))

RECURSIVE SortByCount(_)
SortByCount(entries) ==
    IF entries = <<>> THEN <<>>
    ELSE InsertByCount(SortByCount(SubSeq(entries, 1, Len(entries) - 1)),
                       entries[Len(entries)])

\* Counter.most_common(n), as the ordered [skill, count] pairs of the dict
MostCommon(counter, n) == Take(SortByCount(counter), n)

CitySkillLimit == 10
GlobalSkillLimit == 20

\* MarketIntelligenceEngine.get_city_insights on the table df
MICityInsightsOf(df, city) ==
    IF ~df.loaded THEN Returned([error |-> "No data available"])
    ELSE IF RegexError(city) THEN Raised("re.error")
    ELSE LET Matches(r) == StrContains(r.city, city)
             city_data == SelectSeq(df.rows, Matches)
             total_positions ==
                 SumSeq([i \in 1..Len(city_data) |-> city_data[i].positions_available])
             skill_counts == CounterOf(AllSkills(city_data))
         IN IF city_data = <<>>
            THEN Returned([error |-> "No data found for city: " \o city])
            ELSE Returned([city |-> city,
                           total_positions |-> total_positions,
                           companies_hiring |-> Len(city_data),
                           top_skills |-> MostCommon(skill_counts, CitySkillLimit),
                           market_score |-> Min(total_positions, 1000)])

\* MarketIntelligenceEngine.get_city_insights
MICityInsights(city) == MICityInsightsOf(hiring_df, city)

\* MarketIntelligenceEngine.get_skill_demand
GetSkillDemand ==
    IF ~hiring_df.loaded THEN <<>>
    ELSE MostCommon(CounterOf(AllSkills(hiring_df.rows)), GlobalSkillLimit)

\* MarketIntelligenceEngine.get_market_context (the keys the generator reads)
MarketContext(city, course) ==
    LET city_insights == MICityInsights(city)
    IN IF city_insights.raised THEN city_insights
       ELSE Returned([city_data |-> city_insights.value])

-----------------------------------------------------------------------------
(* backend/localization.py : LocalizationEngine                            *)

\* LocalizationEngine._load_city_contexts
CityContexts ==
    "Bangalore" :> [nickname |-> "Silicon Valley of India",
          key_industries |-> <<"IT Services", "Startups", "R&D", "Biotechnology">>,
          cultural_tone |-> "Tech-forward, innovation-focused, cosmopolitan",
          local_events |-> <<"Bangalore Tech Summit", "Global Innovation Summit", "India Mobile Congress">>,
          language_preference |-> "English with tech jargon",
          market_sentiment |-> "High competition, growth-oriented, startup culture",
          salary_expectations |-> "High (~12-36 LPA)",
          work_culture |-> "Fast-paced, flexible, innovation-driven",
          key_companies |-> <<"Infosys", "Wipro", "TCS", "Flipkart", "Ola">>,
          hashtags |-> <<"#BangaloreTech", "#SiliconValleyOfIndia", "#NammaOoru">>,
          local_references |-> <<"Namma Metro", "UB City", "Electronic City", "Whitefield">>]
    @@
    "Mumbai" :> [nickname |-> "Financial Capital of India",
          key_industries |-> <<"Finance", "Media", "Entertainment", "Pharmaceuticals">>,
          cultural_tone |-> "Fast-paced, opportunity-driven, commercial",
          local_events |-> <<"Mumbai Fintech Festival", "Digital Marketing Summit", "Bombay Stock Exchange Events">>,
          language_preference |-> "English/Hindi mix, business-focused",
          market_sentiment |-> "Networking-focused, premium positioning, ambitious",
          salary_expectations |-> "Premium (~10-22 LPA)",
          work_culture |-> "Hustle mentality, networking-heavy, results-oriented",
          key_companies |-> <<"Reliance", "Tata Group", "HDFC", "Kotak Mahindra">>,
          hashtags |-> <<"#MumbaiFinance", "#MaxCity", "#BombayDreams">>,
          local_references |-> <<"Nariman Point", "BKC", "Marine Drive", "Local trains">>]
    @@
    "Delhi NCR" :> [nickname |-> "Corporate Hub of India",
          key_industries |-> <<"Government", "Consulting", "MNCs", "Manufacturing">>,
          cultural_tone |-> "Professional, hierarchical, power-conscious",
          local_events |-> <<"Delhi Business Summit", "India Leadership Conclave", "CII Events">>,
          language_preference |-> "Hindi/English mix, formal tone",
          market_sentiment |-> "Authority-respecting, status-conscious, traditional",
          salary_expectations |-> "Competitive (~11-24 LPA)",
          work_culture |-> "Formal, hierarchy-aware, relationship-based",
          key_companies |-> <<"HCL", "Tech Mahindra", "Maruti Suzuki", "Hero MotoCorp">>,
          hashtags |-> <<"#DelhiNCR", "#CapitalCareers", "#DilliKiDhadak">>,
          local_references |-> <<"Connaught Place", "Gurgaon", "Noida", "Metro">>]
    @@
    "Hyderabad" :> [nickname |-> "Cyberabad",
          key_industries |-> <<"IT Services", "Biotech", "Aerospace", "Pharmaceuticals">>,
          cultural_tone |-> "Tech-savvy, cost-conscious, traditional yet modern",
          local_events |-> <<"Hyderabad Tech Conference", "BioTech Summit", "HITEC City Events">>,
          language_preference |-> "Telugu/English mix, respectful tone",
          market_sentiment |-> "Value-focused, pragmatic, family-oriented",
          salary_expectations |-> "Value-driven (~9-20 LPA)",
          work_culture |-> "Balanced, family-friendly, cost-effective",
          key_companies |-> <<"Microsoft", "Google", "Amazon", "Facebook">>,
          hashtags |-> <<"#Cyberabad", "#HyderabadTech", "#CityOfPearls">>,
          local_references |-> <<"HITEC City", "Gachibowli", "Jubilee Hills", "Charminar">>]
    @@
    "Chennai" :> [nickname |-> "Detroit of India",
          key_industries |-> <<"Automotive", "Manufacturing", "IT", "Healthcare">>,
          cultural_tone |-> "Traditional yet progressive, quality-focused",
          local_events |-> <<"Chennai Auto Expo", "South India Tech Meet", "Manufacturing Summit">>,
          language_preference |-> "Tamil/English mix, respectful approach",
          market_sentiment |-> "Quality-focused, relationship-driven, conservative",
          salary_expectations |-> "Steady (~8-18 LPA)",
          work_culture |-> "Methodical, quality-oriented, relationship-based",
          key_companies |-> <<"TCS", "Cognizant", "Ford", "Hyundai">>,
          hashtags |-> <<"#ChennaiTech", "#DetroitOfIndia", "#TamilNaduTech">>,
          local_references |-> <<"OMR", "Velachery", "T.Nagar", "Marina Beach">>]
    @@
    "Pune" :> [nickname |-> "Oxford of the East",
          key_industries |-> <<"Education", "IT", "Automotive", "Manufacturing">>,
          cultural_tone |-> "Academic, youthful, collaborative",
          local_events |-> <<"Pune Tech Festival", "Education Innovation Summit", "Auto Expo">>,
          language_preference |-> "Marathi/English mix, academic tone",
          market_sentiment |-> "Learning-oriented, collaborative, student-friendly",
          salary_expectations |-> "Moderate (~9-19 LPA)",
          work_culture |-> "Academic, collaborative, innovation-friendly",
          key_companies |-> <<"Infosys", "TCS", "Bajaj", "Mahindra">>,
          hashtags |-> <<"#PuneTech", "#OxfordOfTheEast", "#PuneIT">>,
          local_references |-> <<"Hinjewadi", "Magarpatta", "Koregaon Park", "Deccan">>]
    @@
    "Ahmedabad" :> [nickname |-> "Manchester of India",
          key_industries |-> <<"Textiles", "Chemicals", "Pharmaceuticals", "IT">>,
          cultural_tone |-> "Business-minded, entrepreneurial, traditional",
          local_events |-> <<"Gujarat Business Summit", "Textile Expo", "Pharma Conference">>,
          language_preference |-> "Gujarati/English mix, business-focused",
          market_sentiment |-> "Entrepreneurial, cost-effective, business-oriented",
          salary_expectations |-> "Cost-effective (~7-16 LPA)",
          work_culture |-> "Entrepreneurial, family-business oriented, frugal",
          key_companies |-> <<"Adani Group", "Torrent", "Zydus", "Infibeam">>,
          hashtags |-> <<"#AhmedabadBusiness", "#GujaratTech", "#ManchesterOfIndia">>,
          local_references |-> <<"SG Highway", "Satellite", "Vastrapur", "Sabarmati">>]
    @@
    "Kolkata" :> [nickname |-> "Cultural Capital of India",
          key_industries |-> <<"IT", "Finance", "Jute", "Steel">>,
          cultural_tone |-> "Intellectual, cultural, traditional",
          local_events |-> <<"Kolkata Book Fair", "Bengal IT Summit", "Cultural Festivals">>,
          language_preference |-> "Bengali/English mix, intellectual tone",
          market_sentiment |-> "Intellectual, culture-appreciating, traditional",
          salary_expectations |-> "Modest (~6-15 LPA)",
          work_culture |-> "Intellectual, discussion-oriented, culture-rich",
          key_companies |-> <<"TCS", "Wipro", "ITC", "Coal India">>,
          hashtags |-> <<"#KolkataTech", "#CulturalCapital", "#CityOfJoy">>,
          local_references |-> <<"Salt Lake", "New Town", "Park Street", "Howrah Bridge">>]

\* LocalizationEngine._load_regional_languages
RegionalLanguages ==
    "Bangalore" :> [hello |-> "Namaskara", opportunity |-> "Avakasha", career |-> "Vyavasaya", success |-> "Safalate"]
    @@ "Mumbai" :> [hello |-> "Namaskar", opportunity |-> "Mauka", career |-> "Career", success |-> "Safalta"]
    @@ "Delhi NCR" :> [hello |-> "Namaste", opportunity |-> "Mauka", career |-> "Career", success |-> "Safalta"]
    @@ "Hyderabad" :> [hello |-> "Namaste", opportunity |-> "Avakasam", career |-> "Udyogam", success |-> "Vijayam"]
    @@ "Chennai" :> [hello |-> "Vanakkam", opportunity |-> "Vaaipu", career |-> "Thozhil", success |-> "Vetri"]
    @@ "Pune" :> [hello |-> "Namaskar", opportunity |-> "Sandhi", career |-> "Vyavasaya", success |-> "Yash"]

\* LocalizationEngine._load_local_events
LocalEvents ==
    "Bangalore" :> <<[name |-> "Bangalore Tech Summit", date |-> "November 2025", relevance |-> "High"],
          [name |-> "Global Innovation Summit", date |-> "December 2025", relevance |-> "Medium"],
          [name |-> "India Mobile Congress", date |-> "October 2025", relevance |-> "High"]>>
    @@ "Mumbai" :> <<[name |-> "Mumbai Fintech Festival", date |-> "October 2025", relevance |-> "High"],
          [name |-> "Digital Marketing Summit", date |-> "November 2025", relevance |-> "Medium"]>>
    @@ "Delhi NCR" :> <<[name |-> "Delhi Business Summit", date |-> "December 2025", relevance |-> "High"],
          [name |-> "India Leadership Conclave", date |-> "January 2026", relevance |-> "Medium"]>>

\* sep.join(items)
RECURSIVE Join(_, _)
Join(items, sep) ==
    IF items = <<>> THEN ""
    ELSE IF Len(items) = 1 THEN items[1]
    ELSE items[1] \o sep \o Join(Tail(items), sep)

\* \w of re for one character (ASCII; the "~" of an emoji is no word character)
IsWordChar(c) ==
    c \in {"a", "b", "c", "d", "e", "f", "g", "h", "i", "j", "k", "l", "m",
           "n", "o", "p", "q", "r", "s", "t", "u", "v", "w", "x", "y", "z",
           "A", "B", "C", "D", "E", "F", "G", "H", "I", "J", "K", "L", "M",
           "N", "O", "P", "Q", "R", "S", "T", "U", "V", "W", "X", "Y", "Z",
           "0", "1", "2", "3", "4", "5", "6", "7", "8", "9", "_"}

\* position i of s lies in a match of #\w+ : a "#" with a word character
\* after it, or a word character reached from such a "#" over word characters
InHashtag(s, i) ==
    \/ At(s, i) = "#" /\ i < Len(s) /\ IsWordChar(At(s, i + 1))
    \/ /\ IsWordChar(At(s, i))
       /\ \E p \in 1..(i - 1) :
              At(s, p) = "#" /\ \A j \in (p + 1)..i : IsWordChar(At(s, j))

\* a pattern #[A-Za-z]+ in place of #\w+
RemoveHashtagsMutant(s) ==
    LET IsLetter(c) == IsWordChar(c) /\ c \notin {"0", "1", "2", "3", "4", "5", "6",
                                                   "7", "8", "9", "_"}
        InTag(i) ==
            \/ At(s, i) = "#" /\ i < Len(s) /\ IsLetter(At(s, i + 1))
            \/ /\ IsLetter(At(s, i))
               /\ \E p \in 1..(i - 1) :
                      At(s, p) = "#" /\ \A j \in (p + 1)..i : IsLetter(At(s, j))
    IN Concat([i \in 1..Len(s) |-> IF InTag(i) THEN "" ELSE At(s, i)])

\* re.sub(r'#\w+', '', s)
RemoveHashtags(s) ==
    Concat([i \in 1..Len(s) |-> IF InHashtag(s, i) THEN "" ELSE At(s, i)])

\* subject.replace('!', ' - Act Fast!')
ReplaceBang(s) ==
    Concat([i \in 1..Len(s) |-> IF At(s, i) = "!" THEN " - Act Fast!" ELSE At(s, i)])

\* LocalizationEngine._localize_subject
LocalizeSubject(subject, context) ==
    LET nickname == Get(context, "nickname", "")
        with_nickname == IF nickname # "" /\ ~Contains(subject, nickname)
                         THEN subject \o " | " \o nickname
                         ELSE subject
        sentiment == Get(context, "market_sentiment", "")
        with_urgency == IF Contains(Lower(sentiment), "high competition")
                        THEN ReplaceBang(with_nickname)
                        ELSE with_nickname
    IN Slice(with_urgency, 60)

\* LocalizationEngine._get_relevant_events
GetRelevantEvents(city) ==
    SelectSeq(Get(LocalEvents, city, <<>>),
              LAMBDA event : Get(event, "relevance", "") = "High")

\* LocalizationEngine._localize_body
LocalizeBody(body, context) ==
    LET industries == Get(context, "key_industries", <<>>)
        industry_text == IF industries # <<>>
                         THEN "\n\nWith " \o Join(Take(industries, 2), ", ")
                                  \o " leading " \o Get(context, "nickname", "the city")
                                  \o "'s growth"
                         ELSE ""
        events == GetRelevantEvents(Get(context, "city", ""))
        event_text == IF events # <<>>
                      THEN ", and upcoming events like " \o events[1].name
                      ELSE ""
        references == Get(context, "local_references", <<>>)
        ref_text == IF references # <<>> THEN " in areas like " \o references[1]
                    ELSE ""
        work_culture == Get(context, "work_culture", "")
        closing == IF Contains(work_culture, "family-friendly")
                   THEN "\n\nJoin thousands of professionals who've transformed their careers while maintaining work-life balance."
                   ELSE IF Contains(work_culture, "fast-paced")
                   THEN "\n\nJoin the fast-track to success with industry-leading curriculum and expert mentorship."
                   ELSE ""
    IN body \o industry_text \o event_text \o ref_text \o closing

\* LocalizationEngine._localize_social
LocalizeSocial(social_post, context) ==
    LET hashtags == Get(context, "hashtags", <<>>)
        tagged == IF hashtags # <<>>
                  THEN Strip(RemoveHashtags(social_post)) \o " "
                           \o Join(Take(hashtags, 3), " ")
                  ELSE social_post
        references == Get(context, "local_references", <<>>)
        referenced == IF Len(tagged) < 200 /\ references # <<>>
                      THEN tagged \o " #" \o RemoveSpaces(references[1])
                      ELSE tagged
    IN Slice(referenced, 280)

\* LocalizationEngine._create_regional_version
CreateRegionalVersion(content, context) ==
    LET city == Get(context, "city", "")
        regional_lang == Get(RegionalLanguages, city, EmptyDict)
    IN IF DOMAIN regional_lang = {}
       THEN "Regional version not available for this city."
       ELSE Get(regional_lang, "hello", "Hello") \o "! "
                \o Get(context, "nickname", city) \o " mein "
                \o Get(regional_lang, "opportunity", "opportunity") \o " hai! "
                \o "Apna " \o Get(regional_lang, "career", "career")
                \o " transform karo aur " \o Get(regional_lang, "success", "success")
                \o " pao upGrad ke saath!"

\* a city without an entry still gets the regional marker
LocalizeContentMutant(content, city) ==
    LET city_context == Get(CityContexts, city, EmptyDict)
    IN [k \in DOMAIN content \cup {"regional_version"} |->
           IF k = "regional_version"
           THEN CreateRegionalVersion(content, city_context)
           ELSE content[k]]

\* LocalizationEngine.localize_content
LocalizeContent(content, city) ==
    LET city_context == Get(CityContexts, city, EmptyDict)
    IN IF DOMAIN city_context = {} THEN content
       ELSE [k \in DOMAIN content \cup {"email_subject", "email_body", "social_post",
                                        "regional_version", "local_context"} |->
               CASE k = "email_subject" ->
                        LocalizeSubject(Get(content, "email_subject", ""), city_context)
                 [] k = "email_body" ->
                        LocalizeBody(Get(content, "email_body", ""), city_context)
                 [] k = "social_post" ->
                        LocalizeSocial(Get(content, "social_post", ""), city_context)
                 [] k = "regional_version" ->
                        CreateRegionalVersion(content, city_context)
                 [] k = "local_context" -> city_context
                 [] OTHER -> content[k]]

-----------------------------------------------------------------------------
(* backend/app.py : endpoints                                              *)

\* GET /api/city-insights/{city}
AppGetCityInsights(city) ==
    LET insights == MICityInsights(city)
    IN IF insights.raised THEN [status_code |-> 500, status |-> "error"]
       ELSE IF "error" \in DOMAIN insights.value
       THEN [status_code |-> 404, status |-> "error"]
       ELSE [status_code |-> 200, status |-> "success", data |-> insights.value]

\* POST /api/generate-campaign
AppGenerateCampaign(request, reply) ==
    LET market_context == MarketContext(request.city, request.course)
    IN IF market_context.raised THEN [status_code |-> 500, status |-> "error"]
       ELSE LET generated ==
                    GenerateCampaignContent(request.course, request.city,
                                            request.campaign_type,
                                            market_context.value, reply)
                content == IF request.localization # "basic"
                           THEN LocalizeContent(generated.content, request.city)
                           ELSE generated.content
            IN [status_code |-> 200, status |-> "success",
                content |-> content,
                predictions |-> Get(content, "predictions", EmptyDict),
                market_context |-> market_context.value,
                image_url |-> IF request.campaign_type \in {"Display Ads", "Social Media"}
                              THEN <<"/static/images/default_campaign.png">>
                              ELSE <<>>]

-----------------------------------------------------------------------------
(* api/routes/campaigns.py : router-based generate_campaign                *)

\* Settings.supported_cities after validate_cities
SupportedCities == {"Bangalore", "Mumbai", "Delhi NCR", "Hyderabad", "Chennai",
                    "Pune", "Ahmedabad", "Kolkata"}

\* what the services called after the validation return (services/ai_engine.py,
\* services/localization.py and services/ml_optimizer.py): generation never
\* fails and yields content for the request
RouterPipeline(request) ==
    [status_code |-> 200, status |-> "success",
     content |-> [course |-> request.course, city |-> request.city]]

\* POST /api/generate-campaign of the router application
RouterGenerateCampaign(request) ==
    IF request.city \notin SupportedCities
    THEN [status_code |-> 400, status |-> "error",
          detail |-> "City '" \o request.city \o "' is not supported"]
    ELSE RouterPipeline(request)

-----------------------------------------------------------------------------
(* Health endpoints: simple_server.py and api/routes/health.py             *)

\* GET /api/health of simple_server.py (marketing_records, the length of a
\* sheet that no other operation reads, is left out of data_stats)
RealHealthCheck ==
    LET data_status == IF hiring_data.loaded THEN "healthy" ELSE "degraded"
        ai_status == IF gemini_api_key THEN "healthy" ELSE "degraded"
        image_status == IF stability_api_key THEN "healthy" ELSE "degraded"
        IsClean(r) == r.city # "City" /\ Len(r.city) > 2
    IN [status_code |-> 200,
        status |-> IF data_status = "healthy" THEN "healthy" ELSE "degraded",
        version |-> "1.0.0",
        timestamp |-> "2025-09-07T06:30:00Z",
        services |-> [ai_engine |-> ai_status,
                      market_intelligence |-> data_status,
                      image_generator |-> image_status,
                      data_source |-> "xlsx_files"],
        data_stats |-> [companies_loaded |->
                            IF hiring_data.loaded
                            THEN Len(SelectSeq(hiring_data.rows, IsClean)) ELSE 0]]

\* the methods MarketIntelligenceEngine defines
MarketEngineMethods ==
    {"__init__", "load_data", "_preprocess_data", "_parse_skills", "_create_dummy_data",
     "get_city_insights", "get_skill_demand", "get_course_relevance",
     "get_hiring_trends", "get_market_context", "_generate_market_summary",
     "_generate_campaign_hooks"}

\* check_market_service: market_service.get_market_overview() is a call of a
\* method the engine does not define; the AttributeError is caught
CheckMarketService ==
    IF "get_market_overview" \in MarketEngineMethods
    THEN [status |-> "healthy", data_loaded |-> hiring_df.rows # <<>>]
    ELSE [status |-> "unhealthy",
          error |-> "'MarketIntelligenceEngine' object has no attribute 'get_market_overview'"]

\* check_ai_service: the test call of the generator succeeds or raises
CheckAiService(test_call_ok) ==
    IF test_call_ok
    THEN [status |-> "healthy",
          gemini_api |-> IF model THEN "connected" ELSE "fallback"]
    ELSE [status |-> "unhealthy", error |-> "generate_content"]

\* check_configuration
CheckConfiguration(data_dir_exists, static_dir_exists) ==
    LET issues == (IF ~gemini_api_key THEN <<"Missing Gemini API key">> ELSE <<>>)
                  \o (IF ~stability_api_key THEN <<"Missing Stability API key">> ELSE <<>>)
                  \o (IF ~data_dir_exists THEN <<"Data directory not found">> ELSE <<>>)
                  \o (IF ~static_dir_exists THEN <<"Static directory not found">> ELSE <<>>)
    IN [status |-> IF issues = <<>> THEN "healthy" ELSE "unhealthy",
        issues |-> issues,
        api_keys_configured |-> gemini_api_key /\ stability_api_key]

\* GET /health of the router application; both service checks catch their
\* own exceptions, so the except clauses of health_check itself never run
RouterHealthCheck(test_call_ok, data_dir_exists, static_dir_exists) ==
    LET ai_status == CheckAiService(test_call_ok)
        market_status == CheckMarketService
        config_status == CheckConfiguration(data_dir_exists, static_dir_exists)
    IN [status_code |-> 200,
        status |-> IF config_status.status = "unhealthy" THEN "degraded" ELSE "healthy",
        timestamp |-> "utcnow",
        version |-> "1.0.0",
        services |-> [ai_engine |-> ai_status,
                      market_intelligence |-> market_status,
                      configuration |-> config_status]]

-----------------------------------------------------------------------------
(* backend/ml_optimizer.py : CampaignOptimizer.  Scores are carried in     *)
(* hundredths, the numerical features in tenths.  The optimizer object is  *)
(* a record [model, encoders, scaler, is_trained, feature_importance,      *)
(* performance_history].                                                   *)

\* categorical_features and numerical_features of _prepare_features
CategoricalFeatures ==
    <<"brand_id", "content_theme", "visual_style", "target_emotion",
      "campaign_type", "platform", "target_city", "target_age_group">>

NumericalFeatures ==
    <<"character_count", "readability_score", "brand_consistency_score",
      "accessibility_score">>

SeqToSet(q) == {q[i] : i \in 1..Len(q)}

\* the defaults of _create_feature_dataframe
FeatureDefaults ==
    [brand_id |-> "upgrad", content_theme |-> "Career Growth",
     visual_style |-> "Professional", target_emotion |-> "Motivation",
     campaign_type |-> "Email", platform |-> "LinkedIn",
     target_city |-> "Bangalore", target_age_group |-> "28-35",
     character_count |-> 1500, readability_score |-> 80,
     brand_consistency_score |-> 90, accessibility_score |-> 85]

\* the columns of df that _prepare_features keeps, in its order
AvailableFeatures(df) ==
    LET Present(feature) == feature \in DOMAIN df
    IN SelectSeq(CategoricalFeatures \o NumericalFeatures, Present)

\* CampaignOptimizer._prepare_features on a one-row frame: the encoders it
\* leaves in self.encoders and the row it returns.  A categorical column
\* without an encoder gets one, fitted on the row; a value outside the
\* classes of its encoder is replaced by the first class.
PrepareFeatures(encoders, df) ==
    LET encoded == {f \in SeqToSet(CategoricalFeatures) : f \in DOMAIN df}
        fitted == [f \in DOMAIN encoders \cup encoded |->
                      IF f \in DOMAIN encoders THEN encoders[f] ELSE <<df[f]>>]
        Known(f) == IF df[f] \in SeqToSet(fitted[f]) THEN df[f] ELSE fitted[f][1]
        available == AvailableFeatures(df)
        IndexOf(q, x) == Least({i \in 1..Len(q) : q[i] = x})
    IN [encoders |-> fitted,
        columns |-> available,
        row |-> [f \in SeqToSet(available) |->
                    IF f \in encoded THEN 10 * (IndexOf(fitted[f], Known(f)) - 1)
                    ELSE df[f]]]

\* RandomForestRegressor.predict on one row: the regressor is a table of
\* per-class effects, and its predictions stay within the training targets
ForestPredict(forest, row) ==
    LET used == DOMAIN forest.effect \cap DOMAIN row
        RECURSIVE Total(_)
        Total(fs) ==
            IF fs = {} THEN 0
            ELSE LET f == CHOOSE x \in fs : TRUE
                 IN forest.effect[f][(row[f] \div 10) + 1] + Total(fs \ {f})
    IN Max(100, Min(1000, forest.base + Total(used)))

\* CampaignOptimizer._calculate_prediction_confidence: 1 - variance / 10 of
\* the trees' predictions for the row, kept within [0.5, 0.95]; in
\* hundredths, the variance of the trees in tenths per class
CalculatePredictionConfidence(forest, row) ==
    LET used == DOMAIN forest.variance \cap DOMAIN row
        RECURSIVE Total(_)
        Total(fs) ==
            IF fs = {} THEN 0
            ELSE LET f == CHOOSE x \in fs : TRUE
                 IN forest.variance[f][(row[f] \div 10) + 1] + Total(fs \ {f})
    IN Max(50, Min(95, 100 - Total(used)))

\* CampaignOptimizer._convert_to_business_metrics; the multiplier
\* 0.5 + score / 10 * 1.5 is (5000 + 15 * score) / 10000
ConvertToBusinessMetrics(performance_score, params) ==
    LET multiplier == 5000 + 15 * performance_score
        platform == Get(params, "platform", "LinkedIn")
        platform_adj ==
            CASE platform = "Instagram" -> [ctr |-> 18, conversion |-> 17, roas |-> 15]
              [] platform = "LinkedIn" -> [ctr |-> 13, conversion |-> 12, roas |-> 13]
              [] platform = "YouTube" -> [ctr |-> 16, conversion |-> 14, roas |-> 14]
              [] platform = "Facebook" -> [ctr |-> 11, conversion |-> 10, roas |-> 11]
              [] platform = "Google Ads" -> [ctr |-> 15, conversion |-> 13, roas |-> 13]
              [] platform = "Twitter" -> [ctr |-> 7, conversion |-> 6, roas |-> 8]
              [] OTHER -> [ctr |-> 10, conversion |-> 10, roas |-> 10]
    IN [ctr |-> FmtTenths(RoundDiv(25 * multiplier * platform_adj.ctr, 100000)) \o "%",
        conversion_rate |->
            FmtTenths(RoundDiv(50 * multiplier * platform_adj.conversion, 100000)) \o "%",
        roas |-> FmtTenths(RoundDiv(32 * multiplier * platform_adj.roas, 100000)) \o "x",
        cost_per_conversion |-> "~" \o ToString((300 * 10000) \div multiplier)]

\* CampaignOptimizer._get_feature_contributions (importances and
\* contributions in thousandths)
GetFeatureContributions(feature_importance, row) ==
    [f \in DOMAIN feature_importance \cap DOMAIN row |->
        RoundDiv(feature_importance[f] * row[f], 100)]

\* CampaignOptimizer.predict_performance: the dict it returns and the
\* optimizer object it leaves.  files is <<>> when a pickle is missing, else
\* <<[model, encoders, scaler]>>; _load_model takes the three from it and
\* sets is_trained.  _create_feature_dataframe is _prepare_features on the
\* defaults overridden by the parameters.
OptPredictPerformance(o, files, campaign_params) ==
    IF ~o.is_trained /\ files = <<>>
    THEN [optimizer |-> o,
          result |-> [error |-> "Model not trained and no saved model available"]]
    ELSE LET loaded ==
                 IF o.is_trained THEN o
                 ELSE [o EXCEPT !.model = files[1].model,
                                !.encoders = files[1].encoders,
                                !.scaler = files[1].scaler, !.is_trained = TRUE]
             features == [k \in DOMAIN FeatureDefaults \cup DOMAIN campaign_params |->
                             IF k \in DOMAIN campaign_params THEN campaign_params[k]
                             ELSE FeatureDefaults[k]]
             feature_df == PrepareFeatures(loaded.encoders, features)
             after == [loaded EXCEPT !.encoders = feature_df.encoders]
             \* StandardScaler.transform raises on a scaler that was never
             \* fitted and on columns other than those it was fitted on
             scaler_raises == \/ ~after.scaler.fitted
                              \/ after.scaler.feature_names # feature_df.columns
         IN IF scaler_raises
            THEN [optimizer |-> after,
                  result |-> [error |-> "Prediction failed: ValueError"]]
            ELSE LET predicted_score == ForestPredict(after.model, feature_df.row)
                 IN [optimizer |-> after,
                     result |->
                       [predicted_performance_score |-> predicted_score,
                        business_metrics |->
                            ConvertToBusinessMetrics(predicted_score, campaign_params),
                        confidence_level |->
                            CalculatePredictionConfidence(after.model, feature_df.row),
                        feature_contributions |->
                            GetFeatureContributions(after.feature_importance,
                                                    feature_df.row),
                        timestamp |-> "now"]]

\* the candidates optimize_campaign tries, in its order
OptimizationCandidates ==
    << [parameter |-> "content_theme", value |-> "Job Security"],
       [parameter |-> "content_theme", value |-> "Career Growth"],
       [parameter |-> "content_theme", value |-> "AI/ML Skills"],
       [parameter |-> "content_theme", value |-> "Salary Boost"],
       [parameter |-> "platform", value |-> "Instagram"],
       [parameter |-> "platform", value |-> "LinkedIn"],
       [parameter |-> "platform", value |-> "YouTube"],
       [parameter |-> "platform", value |-> "Facebook"] >>

OptimizationLimit == 5

\* one step of list.sort(key=improvement, reverse=True), which is stable
InsertByImprovementMutant(sorted, e) ==
    LET k == Cardinality({i \in 1..Len(sorted) : sorted[i].improvement <= e.improvement})
    IN SubSeq(sorted, 1, k) \o <<e>> \o SubSeq(sorted, k + 1, Len(sorted))

InsertByImprovement(sorted, e) ==
    LET k == Cardinality({i \in 1..Len(sorted) : sorted[i].improvement >= e.improvement})
    IN SubSeq(sorted, 1, k) \o <<e>> \o SubSeq(sorted, k + 1, Len(sorted))

\* CampaignOptimizer.optimize_campaign.  SweepCandidates is its two loops,
\* one call of predict_performance after the other: the entries and the
\* optimizer left; SortByImprovement is its sort.
OptimizeCampaign(o, files, base_params) ==
    IF ~o.is_trained THEN [optimizer |-> o, result |-> [error |-> "Model not trained"]]
    ELSE LET base_prediction == OptPredictPerformance(o, files, base_params)
             base_score == Get(base_prediction.result, "predicted_performance_score", 0)
             RECURSIVE SweepCandidates(_, _)
             SweepCandidates(before, candidates) ==
                 IF candidates = <<>> THEN [optimizer |-> before, optimizations |-> <<>>]
                 ELSE LET c == Head(candidates)
                          test_params == WithKey(base_params, c.parameter, c.value)
                          prediction == OptPredictPerformance(before, files, test_params)
                          score == Get(prediction.result,
                                       "predicted_performance_score", 0)
                          rest == SweepCandidates(prediction.optimizer, Tail(candidates))
                      IN [optimizer |-> rest.optimizer,
                          optimizations |->
                              <<[parameter |-> c.parameter, value |-> c.value,
                                 predicted_score |-> score,
                                 improvement |-> score - base_score]>>
                              \o rest.optimizations]
             sweep == SweepCandidates(base_prediction.optimizer, OptimizationCandidates)
             RECURSIVE SortByImprovement(_)
             SortByImprovement(entries) ==
                 IF entries = <<>> THEN <<>>
                 ELSE InsertByImprovement(
                          SortByImprovement(SubSeq(entries, 1, Len(entries) - 1)),
                          entries[Len(entries)])
             Improves(opt) == opt.improvement > 0
             top_optimizations ==
                 Take(SelectSeq(SortByImprovement(sweep.optimizations), Improves),
                      OptimizationLimit)
         IN [optimizer |-> sweep.optimizer,
             result |->
               [base_score |-> base_score,
                optimizations |-> top_optimizations,
                max_improvement |-> IF top_optimizations = <<>> THEN 0
                                    ELSE Greatest({top_optimizations[i].improvement :
                                                     i \in 1..Len(top_optimizations)}),
                timestamp |-> "now"]]

\* CampaignOptimizer.add_performance_feedback: the optimizer it leaves and
\* the content of performance_feedback.json; write_ok is whether the file
\* could be opened for writing (the error is logged, not raised)
AddPerformanceFeedback(o, files, file, campaign_params, actual_performance, write_ok) ==
    LET prediction == OptPredictPerformance(o, files, campaign_params)
        feedback_entry ==
            [timestamp |-> "now",
             campaign_params |-> campaign_params,
             actual_performance |-> actual_performance,
             predicted_performance |->
                 IF "predicted_performance_score" \in DOMAIN prediction.result
                 THEN <<prediction.result.predicted_performance_score>> ELSE <<>>]
        history == Append(prediction.optimizer.performance_history, feedback_entry)
    IN [optimizer |-> [prediction.optimizer EXCEPT !.performance_history = history],
        file |-> IF write_ok THEN history ELSE file]

\* the classes LabelEncoder finds in the synthetic training data
SyntheticClasses ==
    [brand_id |-> <<"byju", "unacademy", "upgrad", "vedantu">>,
     content_theme |-> <<"AI/ML Skills", "Career Growth", "Job Security",
                         "Salary Boost", "Skill Development">>,
     visual_style |-> <<"Creative", "Minimalist", "Modern", "Professional">>,
     target_emotion |-> <<"Aspiration", "Confidence", "Motivation", "Urgency">>,
     campaign_type |-> <<"Display Ads", "Email", "Social Media">>,
     platform |-> <<"Facebook", "Google Ads", "Instagram", "LinkedIn", "Twitter",
                    "YouTube">>,
     target_city |-> <<"Bangalore", "Chennai", "Delhi NCR", "Hyderabad", "Mumbai",
                       "Pune">>,
     target_age_group |-> <<"22-28", "28-35", "35-42", "42-50">>]

\* regressors the training can produce: one that follows the multipliers of
\* the synthetic scores, one that ranks themes and platforms the other way
\* round, and one that ignores every feature; each with the variance of
\* its trees
Forests ==
    { [base |-> 500,
       variance |-> [content_theme |-> <<4, 6, 8, 10, 12>>,
                     platform |-> <<3, 9, 12, 6, 30, 15>>],
       effect |-> [brand_id |-> <<0, -50, 100, -100>>,
                   content_theme |-> <<50, 100, 150, 50, 0>>,
                   platform |-> <<50, 50, 200, 150, -50, 100>>,
                   target_city |-> <<75, 50, 25, 100, 0, -25>>],
       importance |-> [brand_id |-> 210, content_theme |-> 180, platform |-> 330,
                       target_city |-> 90, character_count |-> 40]],
      [base |-> 640,
       variance |-> [platform |-> <<38, 20, 60, 45, 10, 25>>],
       effect |-> [content_theme |-> <<-10, -30, -60, -20, 40>>,
                   platform |-> <<-15, 30, -80, -40, 60, -15>>],
       importance |-> [content_theme |-> 450, platform |-> 550]],
      [base |-> 555,
       variance |-> [content_theme |-> <<0, 0, 0, 0, 0>>],
       effect |-> [content_theme |-> <<0, 0, 0, 0, 0>>],
       importance |-> [content_theme |-> 0]] }

\* the object and the pickles train_model leaves when it trains on data
\* with the given columns: encoders and scaler fitted, model saved
Trained(forest, columns) ==
    LET fitted == [model |-> forest,
                   encoders |-> [f \in SeqToSet(CategoricalFeatures) \cap columns |->
                                    SyntheticClasses[f]],
                   scaler |-> [fitted |-> TRUE,
                               feature_names |->
                                   AvailableFeatures([f \in columns |-> 0])]]
    IN [optimizer |-> [model |-> fitted.model, encoders |-> fitted.encoders,
                       scaler |-> fitted.scaler, is_trained |-> TRUE,
                       feature_importance |->
                           [f \in DOMAIN forest.importance \cap columns |->
                               forest.importance[f]],
                       performance_history |-> <<>>],
        files |-> <<fitted>>]

\* the object train_model leaves when the training data has no
\* performance_score column: _prepare_features has fitted the encoders,
\* then the KeyError is caught and nothing else is set
TrainingFailed(columns) ==
    [model |-> [base |-> 0, variance |-> EmptyDict, effect |-> EmptyDict,
                importance |-> EmptyDict],
     encoders |-> [f \in SeqToSet(CategoricalFeatures) \cap columns |->
                      SyntheticClasses[f]],
     scaler |-> [fitted |-> FALSE, feature_names |-> <<>>],
     is_trained |-> FALSE,
     feature_importance |-> EmptyDict,
     performance_history |-> <<>>]

\* the states CampaignOptimizer.__init__ can leave: [optimizer, files].
\* Trained on the synthetic data or on a sheet with every column; trained
\* on a sheet without the platform column; training failed, with or without
\* the pickles of an earlier run on disk
AfterConstruction ==
    LET all_columns == SeqToSet(CategoricalFeatures) \cup SeqToSet(NumericalFeatures)
    IN { Trained(forest, all_columns) : forest \in Forests }
       \cup { Trained(forest, all_columns \ {"platform"}) : forest \in Forests }
       \cup { [optimizer |-> TrainingFailed(all_columns), files |-> files] :
                  files \in {<<>>} \cup { Trained(forest, all_columns).files :
                                            forest \in Forests } }

-----------------------------------------------------------------------------
(* Inputs                                                                  *)

\* largest variant_number of a direct call of the fallback generator
MaxVariantNumber == 6

LongCity == "Thiruvananthapuram Technopark"

\* s repeated n times
RECURSIVE Repeat(_, _)
Repeat(s, n) == IF n <= 0 THEN "" ELSE s \o Repeat(s, n - 1)

ServerCourses == {"AI/ML", "MBA"}

\* city arguments of the two lookups
LookupCities ==
    {"Bangalore", "bangalore", "Delhi", "Delhi NCR", "Mumbai", "Pune", "Chennai",
     "Kolkata", "Ahmedabad", "Hyderabad", "Nonexistent City", LongCity, "", "(",
     "Pune (East)"}

ServerRequests ==
    [course : ServerCourses,
     city : {"Bangalore", "Nonexistent City"},
     cities : {<<>>, <<"Pune", "Mumbai">>},
     campaign_type : {"email"},
     variants : {<<>>, <<-1>>, <<0>>, <<1>>, <<2>>, <<6>>, <<11>>},
     tone_scale : {<<>>, <<3>>, <<5>>, <<8>>},
     language : {<<>>, <<"English">>, <<"Hindi">>},
     localization : {"basic"}]

\* market contexts handed to generate_campaign_content
MarketContexts ==
    { EmptyDict,
      [city_data |-> [error |-> "No data found for city: Nonexistent City"]],
      [city_data |-> [city |-> "Bangalore", total_positions |-> 165,
                      companies_hiring |-> 2, market_score |-> 165]],
      [city_data |-> [city |-> "Pune", total_positions |-> 1900,
                      companies_hiring |-> 1, market_score |-> 1000]] }

\* the response format the prompt asks for
PromptLayout(f) ==
    "SUBJECT: " \o f.subject \o "\nBODY: " \o f.body \o "\nSOCIAL: " \o f.social
    \o "\nCTA: " \o f.cta \o "\nBENEFITS: " \o f.benefits

LayoutFields ==
    [subject : {"Upskill in Pune now!",
                "Pune professionals: the AI/ML hiring wave is here and it will not wait!"},
     body : {"Join upGrad.\nSeats are limited."},
     social : {"Level up today! #upGrad"},
     cta : {"Enroll today"},
     benefits : {"Growth", "Growth | Salary", "Growth | Salary | Network",
                 "Growth | Salary | Network | Mentors"}]

\* behaviours of the Gemini call: it raises, answers in the layout, or
\* answers some other text
GeminiReplies ==
    {[kind |-> "raise"]}
    \cup {[kind |-> "layout", fields |-> f, text |-> PromptLayout(f)] : f \in LayoutFields}
    \cup {[kind |-> "free", text |-> t] :
            t \in {"Sure! Here is a campaign for you.",
                   "Subject: Hello BODY: Hi SOCIAL: Go CTA: Join BENEFITS: A|B",
                   "SUBJECT: Hello\nSOCIAL: " \o Repeat("Level up! ", 30)}}

\* a post as its pieces: a piece is a #hashtag token or text between tokens
PostPieces ==
    { << [tag |-> FALSE, text |-> "Level up today!"] >>,
      << [tag |-> FALSE, text |-> "~~~~ Join "], [tag |-> TRUE, text |-> "#upGrad"],
         [tag |-> FALSE, text |-> " now "], [tag |-> TRUE, text |-> "#AI_ML2"],
         [tag |-> FALSE, text |-> " ! # "], [tag |-> TRUE, text |-> "#Jobs"] >>,
      << [tag |-> TRUE, text |-> "#a"], [tag |-> TRUE, text |-> "#b"],
         [tag |-> FALSE, text |-> " c"], [tag |-> TRUE, text |-> "#d"] >>,
      << [tag |-> FALSE, text |-> Repeat("Level up! ", 17)],
         [tag |-> TRUE, text |-> "#upGrad"] >>,
      << [tag |-> FALSE, text |-> Repeat("Level up! ", 24)],
         [tag |-> TRUE, text |-> "#upGrad"],
         [tag |-> FALSE, text |-> " " \o Repeat("Now! ", 8)] >>,
      << [tag |-> FALSE, text |-> Repeat("Grow. ", 50)] >> }

\* the post a sequence of pieces spells
PostOf(pieces) == Concat([i \in 1..Len(pieces) |-> pieces[i].text])

\* content dicts handed to localize_content: the five keys of the generator,
\* with and without predictions
LocalizeContents ==
    { [email_subject |-> subject, email_body |-> "Join upGrad.",
       social_post |-> PostOf(pieces), call_to_action |-> "Enroll today",
       key_benefits |-> <<"Growth">>] :
          subject \in {"Upskill now!", "Wow! Big! News!",
                       "Silicon Valley of India calls!", Repeat("x", 58) \o "!", ""},
          pieces \in PostPieces }
    \cup
    { [email_subject |-> "Upskill now!", email_body |-> "Join upGrad.",
       social_post |-> "Level up today!", call_to_action |-> "Enroll today",
       key_benefits |-> <<"Growth">>, predictions |-> [ctr |-> "14.3%"]],
      [email_body |-> "Join upGrad."] }

\* the pieces a post of LocalizeContents was spelt from
PiecesOf(post) == CHOOSE pieces \in PostPieces : PostOf(pieces) = post

AppRequests ==
    [course : {"AI/ML", "Data Science"},
     city : {"Bangalore", "Delhi", "Nonexistent City", "("},
     campaign_type : {"Email", "Social Media"},
     localization : {"basic", "advanced"}]

ScoreGrid == 40

\* market scores of [0, 10], in hundredths
MarketScores == {(1000 * i) \div ScoreGrid : i \in 0..ScoreGrid}

\* market context whose city data carries the given score
ScoreContext(score) == [city_data |-> [market_score |-> score]]

MaxRows == 3

\* rows a hiring sheet can hold after _preprocess_data: repeated skills,
\* mixed case, blanks around and between the commas, and an empty cell
SkillRows ==
    { [city |-> "Bangalore", positions_available |-> 120,
       skills_technologies |-> <<"python, sql, aws, docker, kafka, spark, scala, rust">>],
      [city |-> "Bangalore", positions_available |-> 45,
       skills_technologies |-> <<"Go,Java, python ,C++,R,Excel,Tableau,,sql">>],
      [city |-> "Pune", positions_available |-> 1900,
       skills_technologies |->
           <<"machine learning, deep learning, nlp, python, node.js, react, vue, django, flask">>],
      [city |-> "Delhi Ncr", positions_available |-> 300,
       skills_technologies |-> <<>>],
      [city |-> "Bangalore", positions_available |-> 7,
       skills_technologies |-> <<"AWS, aws, Aws , PYTHON,R">>] }

DummyRowCount == 1

\* the rows _create_dummy_data can draw: any of its six cities, a count of
\* randint(1, 100), three of its six skills joined by ", "
DummyRows ==
    [city : {"Bangalore", "Mumbai", "Delhi NCR", "Hyderabad", "Chennai", "Pune"},
     positions_available : {1, 99},
     skills_technologies : {<<"AI/ML, Python, AI/ML">>,
                            <<"DevOps, Cloud Computing, Cybersecurity">>}]

\* the tables _create_dummy_data can leave in hiring_df (DummyRowCount rows
\* stand for the 100 of the code); numpy's generator is not seeded, so each
\* call of it may draw any of them
CreateDummyData ==
    { [loaded |-> TRUE, rows |-> rows] : rows \in [1..DummyRowCount -> DummyRows] }

\* campaign parameters of a request: known values, values that never
\* occurred in training ("Memes", "TikTok", "coursera", "Kochi"), and the
\* first classes of the encoders
CampaignParams ==
    { EmptyDict,
      [content_theme |-> "Skill Development", platform |-> "Twitter"],
      [content_theme |-> "Job Security", platform |-> "Instagram"],
      [content_theme |-> "Memes"],
      [content_theme |-> "AI/ML Skills"],
      [platform |-> "TikTok"],
      [platform |-> "Facebook"],
      [brand_id |-> "coursera", target_city |-> "Pune"],
      [brand_id |-> "byju", target_city |-> "Pune"],
      [platform |-> "Twitter", target_city |-> "Kochi"],
      [platform |-> "Twitter", target_city |-> "Bangalore"] }

MaxFeedback == 2

-----------------------------------------------------------------------------
(* Actions.  A handler runs when no response is in flight; Deliver hands   *)
(* the response over.                                                      *)

Respond(name, a, r) ==
    /\ op = "idle"
    /\ op' = name
    /\ args' = a
    /\ res' = r
    /\ UNCHANGED <<config, optimizer, model_files, feedback_file>>

\* the response is handed over; prev keeps the call it held or, for a call
\* of the fallback generator, may take this one
Deliver ==
    /\ op # "idle"
    /\ op' = "idle"
    /\ args' = <<>>
    /\ res' = <<>>
    /\ prev' \in {prev} \cup (IF op = "fallback"
                               THEN {[args |-> args, res |-> res]} ELSE {})
    /\ UNCHANGED <<config, optimizer, model_files, feedback_file>>

\* a call of RealDataEngine._generate_fallback_content
FallbackCall ==
    \E course \in ServerCourses, city \in {"Bangalore", "Pune"},
       positions \in {1000, 2500}, tone_scale \in 1..10,
       variant_number \in 0..MaxVariantNumber :
        LET a == [course |-> course, city |-> city, positions |-> positions,
                  companies |-> 35, tone_scale |-> tone_scale,
                  variant_number |-> variant_number]
            r == RealFallbackContent(course, city, positions, 35, tone_scale,
                                     variant_number)
        IN /\ Respond("fallback", a, r)
           /\ UNCHANGED prev

\* a call of RealDataEngine.get_city_insights
RealLookup ==
    \E city \in LookupCities :
        /\ Respond("real_city_insights", [city |-> city], RealCityInsights(city))
        /\ UNCHANGED prev

\* a call of RealDataEngine.generate_content
RealGenerateContentCall ==
    \E course \in ServerCourses, city \in {"Bangalore", "Nonexistent City"},
       tone_scale \in {<<>>} \cup {<<t>> : t \in 1..10},
       language \in {<<>>, <<"English">>, <<"Hindi">>}, variant_number \in 1..2,
       primary_fails \in BOOLEAN, translation_fails \in BOOLEAN, text \in AiTexts :
        /\ Respond("generate_content",
                   [course |-> course, city |-> city, tone_scale |-> tone_scale,
                    language |-> language, variant_number |-> variant_number,
                    primary_fails |-> primary_fails,
                    translation_fails |-> translation_fails],
                   RealGenerateContent(course, city, tone_scale, language,
                                       variant_number, primary_fails,
                                       translation_fails, text))
        /\ UNCHANGED prev

\* POST /api/generate-campaign of simple_server.py
RealGenerateCampaignCall ==
    \E request \in ServerRequests :
        \E script \in IF gemini_api_key
                      THEN ServiceScripts(IF request.variants = <<>> THEN 1
                                          ELSE Min(Max(request.variants[1], 1),
                                                   VariantCap))
                      ELSE {[failing |-> {}, translation_fails |-> FALSE,
                             text |-> CHOOSE t \in AiTexts : TRUE]} :
            /\ Respond("real_generate_campaign",
                       [request |-> request, script |-> script],
                       RealGenerateCampaign(request, script))
            /\ UNCHANGED prev

\* a call of AIContentGenerator.generate_campaign_content
EngineGenerateCall ==
    \E course \in {"AI/ML", "Data Science", "Generative AI", "MBA"}, city \in {"Bangalore", "Pune", LongCity},
       market_context \in MarketContexts,
       reply \in IF model THEN GeminiReplies ELSE {[kind |-> "none"]} :
        /\ Respond("generate_campaign_content",
                   [course |-> course, city |-> city, campaign_type |-> "Email",
                    market_context |-> market_context, reply |-> reply],
                   GenerateCampaignContent(course, city, "Email", market_context, reply))
        /\ UNCHANGED prev

\* a call of MarketIntelligenceEngine.get_city_insights
MILookup ==
    \E city \in LookupCities :
        /\ Respond("mi_city_insights", [city |-> city], MICityInsights(city))
        /\ UNCHANGED prev

\* GET /api/city-insights/{city} of backend/app.py
AppCityInsightsCall ==
    \E city \in {"Bangalore", "Delhi", "Nonexistent City", LongCity, "("} :
        /\ Respond("app_city_insights", [city |-> city], AppGetCityInsights(city))
        /\ UNCHANGED prev

\* POST /api/generate-campaign of backend/app.py
AppGenerateCampaignCall ==
    \E request \in AppRequests :
        \E reply \in IF model THEN {r \in GeminiReplies : r.kind # "free"}
                     ELSE {[kind |-> "none"]} :
            /\ Respond("app_generate_campaign",
                       [request |-> request, reply |-> reply],
                       AppGenerateCampaign(request, reply))
            /\ UNCHANGED prev

\* POST /api/generate-campaign of the router application
RouterGenerateCampaignCall ==
    \E request \in AppRequests :
        /\ Respond("router_generate_campaign", [request |-> request],
                   RouterGenerateCampaign(request))
        /\ UNCHANGED prev

\* a call of LocalizationEngine.localize_content
LocalizeCall ==
    \E content \in LocalizeContents,
       city \in {"Bangalore", "Mumbai", "Delhi NCR", "Hyderabad", "Chennai", "Pune",
                 "Ahmedabad", "Kolkata", "Delhi", "bangalore", "Nonexistent City", ""} :
        /\ Respond("localize_content", [content |-> content, city |-> city],
                   LocalizeContent(content, city))
        /\ UNCHANGED prev

\* GET /api/health of simple_server.py
RealHealthCall ==
    /\ Respond("real_health", <<>>, RealHealthCheck)
    /\ UNCHANGED prev

\* GET /health of the router application
RouterHealthCall ==
    \E test_call_ok \in BOOLEAN, data_dir_exists \in BOOLEAN,
       static_dir_exists \in BOOLEAN :
        /\ Respond("router_health",
                   [test_call_ok |-> test_call_ok, data_dir_exists |-> data_dir_exists,
                    static_dir_exists |-> static_dir_exists],
                   RouterHealthCheck(test_call_ok, data_dir_exists, static_dir_exists))
        /\ UNCHANGED prev

\* AIContentGenerator._predict_performance on its own
PredictCall ==
    \E course \in {"AI/ML", "Generative AI", "Data Science", "MSc Finance", "MBA"},
       market_context \in {ScoreContext(s) : s \in MarketScores} \cup {EmptyDict} :
        /\ Respond("predict_performance",
                   [course |-> course, city |-> "Bangalore", campaign_type |-> "Email",
                    market_context |-> market_context],
                   PredictPerformance(course, "Bangalore", "Email", market_context))
        /\ UNCHANGED prev

\* a call of MarketIntelligenceEngine.get_skill_demand
SkillDemandCall ==
    /\ Respond("skill_demand", <<>>, GetSkillDemand)
    /\ UNCHANGED prev

\* a new run of the process with no data files: load_data fails at
\* read_excel and falls back to _create_dummy_data
RestartWithoutData ==
    /\ op = "idle"
    /\ hiring_df' \in CreateDummyData
    /\ prev' = NoCall
    /\ UNCHANGED <<gemini_api_key, stability_api_key, hiring_data, model, op, args, res>>
    /\ UNCHANGED <<optimizer, model_files, feedback_file>>

\* a call of CampaignOptimizer.predict_performance
OptPredictCall ==
    \E campaign_params \in CampaignParams :
        LET call == OptPredictPerformance(optimizer, model_files, campaign_params)
        IN /\ op = "idle"
           /\ op' = "optimizer_predict_performance"
           /\ args' = [campaign_params |-> campaign_params]
           /\ res' = call.result
           /\ optimizer' = call.optimizer
           /\ UNCHANGED <<config, model_files, feedback_file, prev>>

\* a call of CampaignOptimizer.optimize_campaign
OptimizeCall ==
    \E base_params \in CampaignParams :
        LET call == OptimizeCampaign(optimizer, model_files, base_params)
        IN /\ op = "idle"
           /\ op' = "optimize_campaign"
           /\ args' = [base_params |-> base_params]
           /\ res' = call.result
           /\ optimizer' = call.optimizer
           /\ UNCHANGED <<config, model_files, feedback_file, prev>>

\* a call of CampaignOptimizer.add_performance_feedback (it returns None)
FeedbackCall ==
    \E campaign_params \in {EmptyDict, [platform |-> "TikTok"]},
       actual_performance \in {420, 910}, write_ok \in BOOLEAN :
        LET call == AddPerformanceFeedback(optimizer, model_files, feedback_file,
                                           campaign_params, actual_performance, write_ok)
        IN /\ op = "idle"
           /\ Len(optimizer.performance_history) < MaxFeedback
           /\ op' = "add_performance_feedback"
           /\ args' = [campaign_params |-> campaign_params,
                       actual_performance |-> actual_performance,
                       write_ok |-> write_ok]
           /\ res' = <<>>
           /\ optimizer' = call.optimizer
           /\ feedback_file' = call.file
           /\ UNCHANGED <<config, model_files, prev>>

\* a new run of the process: CampaignOptimizer.__init__ builds a new object
\* and trains it; a training that succeeds writes the pickles, one that
\* fails leaves those on disk.  performance_feedback.json is not read.
OptimizerRestart ==
    /\ op = "idle"
    /\ \E s \in AfterConstruction :
           /\ s.optimizer.is_trained \/ s.files = model_files
           /\ optimizer' = s.optimizer
           /\ model_files' = s.files
    /\ prev' = NoCall
    /\ UNCHANGED <<config, op, args, res, feedback_file>>

-----------------------------------------------------------------------------
(* The programs                                                             *)

Idle == op = "idle" /\ args = <<>> /\ res = <<>> /\ prev = NoCall

\* a process that does not import ml_optimizer, with no files of it on disk
NoOptimizer ==
    /\ optimizer = TrainingFailed({})
    /\ model_files = <<>>
    /\ feedback_file = <<>>

\* simple_server.py after RealDataEngine.__init__
Init ==
    /\ gemini_api_key \in BOOLEAN
    /\ stability_api_key \in BOOLEAN
    /\ hiring_data \in {NoTable, HiringSheet}
    /\ model = FALSE
    /\ hiring_df = DummyTable
    /\ NoOptimizer
    /\ Idle

Next ==
    \/ RealLookup
    \/ RealGenerateContentCall
    \/ RealGenerateCampaignCall
    \/ Deliver

Spec == Init /\ [][Next]_vars

\* backend/app.py and the router application after the module-level
\* AIContentGenerator() and MarketIntelligenceEngine()
InitBackend ==
    /\ gemini_api_key = FALSE
    /\ stability_api_key = FALSE
    /\ hiring_data = NoTable
    /\ model \in BOOLEAN
    /\ hiring_df \in {HiringTable, DummyTable}
    /\ NoOptimizer
    /\ Idle

NextBackend ==
    \/ EngineGenerateCall
    \/ MILookup
    \/ AppCityInsightsCall
    \/ AppGenerateCampaignCall
    \/ RouterGenerateCampaignCall
    \/ Deliver

SpecBackend == InitBackend /\ [][NextBackend]_vars

\* the fallback generator of simple_server.py called on its own
InitFallback ==
    /\ gemini_api_key = FALSE
    /\ stability_api_key = FALSE
    /\ hiring_data \in {NoTable, HiringSheet}
    /\ model = FALSE
    /\ hiring_df = DummyTable
    /\ NoOptimizer
    /\ Idle

NextFallback ==
    \/ FallbackCall
    \/ RealLookup
    \/ Deliver

SpecFallback == InitFallback /\ [][NextFallback]_vars

\* the two market-data lookups side by side
InitLookup ==
    /\ gemini_api_key = FALSE
    /\ stability_api_key = FALSE
    /\ hiring_data \in {NoTable, HiringSheet}
    /\ model = FALSE
    /\ hiring_df \in {HiringTable, DummyTable}
    /\ NoOptimizer
    /\ Idle

NextLookup ==
    \/ RealLookup
    \/ MILookup
    \/ Deliver

SpecLookup == InitLookup /\ [][NextLookup]_vars

\* the localization engine of backend/localization.py called on its own,
\* next to the endpoint of backend/app.py that calls it
InitLocalize ==
    /\ gemini_api_key = FALSE
    /\ stability_api_key = FALSE
    /\ hiring_data = NoTable
    /\ model \in BOOLEAN
    /\ hiring_df = HiringTable
    /\ NoOptimizer
    /\ Idle

NextLocalize ==
    \/ LocalizeCall
    \/ AppGenerateCampaignCall
    \/ Deliver

SpecLocalize == InitLocalize /\ [][NextLocalize]_vars

\* the health endpoints of simple_server.py and of the router application,
\* over every state of credentials and data
InitHealth ==
    /\ gemini_api_key \in BOOLEAN
    /\ stability_api_key \in BOOLEAN
    /\ hiring_data \in {NoTable, HiringSheet}
    /\ model \in BOOLEAN
    /\ model => gemini_api_key
    /\ hiring_df \in {HiringTable, DummyTable}
    /\ NoOptimizer
    /\ Idle

NextHealth ==
    \/ RealHealthCall
    \/ RouterHealthCall
    \/ Deliver

SpecHealth == InitHealth /\ [][NextHealth]_vars

\* the heuristic predictor of backend/ai_engine.py over courses and scores
InitPredict ==
    /\ gemini_api_key \in BOOLEAN
    /\ stability_api_key = FALSE
    /\ hiring_data = NoTable
    /\ model = gemini_api_key
    /\ hiring_df = HiringTable
    /\ NoOptimizer
    /\ Idle

NextPredict ==
    \/ PredictCall
    \/ Deliver

SpecPredict == InitPredict /\ [][NextPredict]_vars

\* the skill aggregates of the market intelligence engine over the tables
\* of at most MaxRows rows
InitSkills ==
    /\ gemini_api_key = FALSE
    /\ stability_api_key = FALSE
    /\ hiring_data = NoTable
    /\ model = FALSE
    /\ hiring_df \in { [loaded |-> TRUE, rows |-> rows] :
                         rows \in UNION { [1..n -> SkillRows] : n \in 0..MaxRows } }
    /\ NoOptimizer
    /\ Idle

NextSkills ==
    \/ MILookup
    \/ SkillDemandCall
    \/ Deliver

SpecSkills == InitSkills /\ [][NextSkills]_vars

\* runs of the market intelligence engine with no data files
InitDummy ==
    /\ gemini_api_key = FALSE
    /\ stability_api_key = FALSE
    /\ hiring_data = NoTable
    /\ model = FALSE
    /\ hiring_df \in CreateDummyData
    /\ NoOptimizer
    /\ Idle

NextDummy ==
    \/ RestartWithoutData
    \/ MILookup
    \/ Deliver

SpecDummy == InitDummy /\ [][NextDummy]_vars

\* the process after CampaignOptimizer.__init__, no feedback file on disk
InitOptimizer ==
    /\ gemini_api_key = FALSE
    /\ stability_api_key = FALSE
    /\ hiring_data = NoTable
    /\ model = FALSE
    /\ hiring_df = HiringTable
    /\ \E s \in AfterConstruction :
           /\ optimizer = s.optimizer
           /\ model_files = s.files
    /\ feedback_file = <<>>
    /\ Idle

\* the request-time operations over the shared objects
NextOptimizer ==
    \/ OptPredictCall
    \/ OptimizeCall
    \/ MILookup
    \/ LocalizeCall
    \/ Deliver

SpecOptimizer == InitOptimizer /\ [][NextOptimizer]_vars

\* performance feedback over several runs of the process
NextFeedback ==
    \/ FeedbackCall
    \/ OptimizerRestart
    \/ Deliver

SpecFeedback == InitOptimizer /\ [][NextFeedback]_vars

-----------------------------------------------------------------------------
(* Tone bands and the fallback generator of simple_server.py               *)

\* the three documented ranges of tone_scale
DocumentedBand(t) ==
    IF t \in 1..3 THEN "formal" ELSE IF t \in 4..7 THEN "balanced" ELSE "urgent"

\* the band a tone description stands for
BandOfTone(tone) ==
    CASE tone.urgency_level = "low urgency" -> "formal"
      [] tone.urgency_level = "moderate urgency" -> "balanced"
      [] tone.urgency_level = "high urgency" -> "urgent"

\* the bands whose template a piece of fallback content was built from
BandsOfContent(content) ==
    {b \in {"formal", "balanced", "urgent"} :
        Contains(content, CASE b = "formal" -> "Dear Professional,"
                            [] b = "balanced" -> "Market Snapshot:"
                            [] b = "urgent" -> "URGENT ALERT:")}

\* C5: for every tone_scale in 1..10 the tone description built for the
\* prompt and the template of the fallback content are both those of the
\* documented band: 1..3 formal, 4..7 balanced, 8..10 urgent.
C5_ToneBand ==
    (op = "generate_content" /\ ~res.raised) =>
        /\ BandOfTone(res.value.tone) = DocumentedBand(args.tone_scale[1])
        /\ res.value.path # "ai" =>
               BandsOfContent(res.value.content) = {DocumentedBand(args.tone_scale[1])}

C5_Witness ==
    /\ op = "generate_content"
    /\ args.tone_scale = <<3>>
    /\ ~res.raised
    /\ res.value.path = "no_key"
    /\ res.value.tone.urgency_level = "low urgency"
    /\ BandsOfContent(res.value.content) = {"formal"}

ContentAtPoolIndex(a) ==
    LET hooks == Hooks(a.course, a.city, a.positions)
        hook == hooks[(a.variant_number % Len(hooks)) + 1]
        value_prop == ValueProps[(a.variant_number % Len(ValueProps)) + 1]
        urgency == UrgencyElements[(a.variant_number % Len(UrgencyElements)) + 1]
    IN CASE DocumentedBand(a.tone_scale) = "formal" ->
                FormalTemplate(hook, value_prop, a.course, a.city, a.positions,
                               a.companies)
         [] DocumentedBand(a.tone_scale) = "urgent" ->
                UrgentTemplate(hook, value_prop, urgency, a.course, a.city,
                               a.positions, a.companies)
         [] OTHER ->
                BalancedTemplate(hook, value_prop, urgency, a.course, a.city,
                                 a.positions, a.companies)

\* the first line of a piece of content
FirstLine(content) == SubSeq(content, 1, LineEnd(content, 1) - 1)

\* the later call has variant_number 2, the kept one variant_number 1, and
\* all other arguments are equal
VariantOneThenTwo ==
    /\ op = "fallback"
    /\ prev # NoCall
    /\ args.variant_number = 2
    /\ prev.args = [args EXCEPT !.variant_number = 1]

\* C7: the hook, value proposition and urgency fragments of fallback content
\* are the pool elements at index variant_number mod pool size, and the
\* contents for variant_number 1 and 2 differ in hook and value proposition.
C7_VariantSelection ==
    /\ op = "fallback" => res = ContentAtPoolIndex(args)
    /\ VariantOneThenTwo =>
           /\ FirstLine(res) # FirstLine(prev.res)
           /\ Contains(res, ValueProps[3]) /\ ~Contains(prev.res, ValueProps[3])
           /\ Contains(prev.res, ValueProps[2]) /\ ~Contains(res, ValueProps[2])

C7_Witness ==
    /\ VariantOneThenTwo
    /\ Contains(FirstLine(res), "opportunities just opened in")
    /\ Contains(FirstLine(prev.res), "moment is NOW!")

-----------------------------------------------------------------------------
(* AIContentGenerator: fallback, limits and parsing                        *)

ContentKeys == {"email_subject", "email_body", "social_post", "call_to_action",
                "key_benefits"}

\* no credential, or a failing model call, in a call of generate_content
RealMustFallBack ==
    \/ ~gemini_api_key
    \/ args.primary_fails
    \/ (args.language \in {<<"Hindi">>, <<"Multi">>} /\ args.translation_fails)

\* C1: when no text-generation credential is configured, or the external
\* model call raises, generate_content and generate_campaign_content return
\* the template fallback content of the same inputs and raise nothing.
C1_FallbackForSameInputs ==
    /\ (op = "generate_campaign_content" /\ res.path \in {"no_model", "except"}) =>
           LET expected == EngineFallbackContent(args.course, args.city,
                                                 args.campaign_type, args.market_context)
           IN \A k \in ContentKeys :
                  k \in DOMAIN res.content /\ res.content[k] = expected[k]
    /\ (op = "generate_content" /\ RealMustFallBack) =>
           /\ ~res.raised
           /\ res.value.content =
                  RealFallbackContent(args.course, args.city,
                                      RealCityInsights(args.city).positions_available,
                                      RealCityInsights(args.city).companies_hiring,
                                      args.tone_scale[1], args.variant_number)

\* C2: every request the request model accepts is answered 200 "success"
\* with generated content, whatever keys and data files are available.
C2_AlwaysSuccess ==
    /\ op = "real_generate_campaign" =>
           /\ res.status_code = 200
           /\ res.status = "success"
           /\ Len(res.variants) >= 1
    /\ op = "app_generate_campaign" =>
           /\ res.status_code = 200
           /\ res.status = "success"

\* C3: every content object returned by generate_campaign_content has an
\* email_subject of at most 60 characters and a social_post of at most 280.
C3_LengthLimits ==
    op = "generate_campaign_content" =>
        /\ Len(res.content.email_subject) <= SubjectLimit
        /\ Len(res.content.social_post) <= SocialLimit

\* C4: for a model text in the layout the prompt asks for, every parsed
\* field is the text between its label and the next label (or the end).
C4_FieldsOfLayout ==
    (op = "generate_campaign_content" /\ res.path = "ai" /\ args.reply.kind = "layout") =>
        /\ res.content.email_subject = Slice(Strip(args.reply.fields.subject), SubjectLimit)
        /\ res.content.email_body = Strip(args.reply.fields.body)
        /\ res.content.social_post = Slice(Strip(args.reply.fields.social), SocialLimit)
        /\ res.content.call_to_action = Strip(args.reply.fields.cta)

\* the k-th smallest element of a set of integers
KthLeast(S, k) == CHOOSE x \in S : Cardinality({y \in S : y <= x}) = k

\* the j-th of the |-separated items of a line, trimmed
ItemOfLine(line, j) ==
    LET bars == {i \in 1..Len(line) : At(line, i) = "|"}
        lo == IF j = 1 THEN 0 ELSE KthLeast(bars, j - 1)
        hi == IF j = Cardinality(bars) + 1 THEN Len(line) + 1 ELSE KthLeast(bars, j)
    IN Strip(SubSeq(line, lo + 1, hi - 1))

ItemCount(line) == Cardinality({i \in 1..Len(line) : At(line, i) = "|"}) + 1

\* C8: key_benefits never has more than 3 entries; for a text with a
\* BENEFITS line of k items it holds the first three in order when k >= 3
\* and all k, unpadded, when k < 3.
C8_KeyBenefits ==
    op = "generate_campaign_content" =>
        /\ Len(res.content.key_benefits) <= 3
        /\ (res.path = "ai" /\ args.reply.kind = "layout") =>
               LET line == args.reply.fields.benefits
                   n == IF ItemCount(line) >= 3 THEN 3 ELSE ItemCount(line)
               IN res.content.key_benefits = [j \in 1..n |-> ItemOfLine(line, j)]

C8_Witness ==
    /\ op = "generate_campaign_content"
    /\ res.path = "ai"
    /\ args.reply.kind = "layout"
    /\ args.reply.fields.benefits = "Growth | Salary"
    /\ res.content.key_benefits = <<"Growth", "Salary">>

-----------------------------------------------------------------------------
(* Market-data lookups and the endpoints over them                         *)

\* a snapshot of RealDataEngine: counts, skills and salary
WellFormedSnapshot(r) ==
    /\ {"positions_available", "companies_hiring", "avg_salary", "top_skills"}
           \subseteq DOMAIN r
    /\ r.positions_available \in Nat
    /\ r.companies_hiring \in Nat

\* a snapshot of MarketIntelligenceEngine: counts
WellFormedInsights(r) ==
    /\ {"total_positions", "companies_hiring"} \subseteq DOMAIN r
    /\ r.total_positions \in Nat
    /\ r.companies_hiring \in Nat

\* no cleaned row of the sheet has a city matching the argument
NoSheetRow(city) ==
    \/ ~hiring_data.loaded
    \/ RegexError(city)
    \/ \A i \in 1..Len(hiring_data.rows) :
           \/ hiring_data.rows[i].city = "City"
           \/ Len(hiring_data.rows[i].city) <= 2
           \/ ~StrContains(hiring_data.rows[i].city, city)

\* no row of the table has a city matching the argument, a plain name
NoTableRow(city) ==
    /\ ~RegexError(city)
    /\ \A i \in 1..Len(hiring_df.rows) : ~StrContains(hiring_df.rows[i].city, city)

C10_NotFoundOnlyOnLookup ==
    /\ (op = "app_city_insights" /\ NoTableRow(args.city)) => res.status_code = 404
    /\ (op \in {"app_generate_campaign", "router_generate_campaign"}
          /\ NoTableRow(args.request.city)) =>
           (res.status_code = 200 /\ res.status = "success")

-----------------------------------------------------------------------------
(* Localization of generated content                                       *)

\* a direct call of localize_content for a city of the localization table
LocalizedCall == op = "localize_content" /\ args.city \in DOMAIN CityContexts

\* C11: for a city without an entry in the localization table,
\* localize_content returns its input content: no field added, removed or
\* altered, and nothing raised.
C11_NoEntryNoChange ==
    (op = "localize_content" /\ args.city \notin DOMAIN CityContexts) =>
        /\ DOMAIN res = DOMAIN args.content
        /\ \A k \in DOMAIN res : res[k] = args.content[k]

C11_Witness ==
    /\ op = "localize_content"
    /\ args.city = "bangalore"
    /\ "predictions" \in DOMAIN args.content
    /\ res = args.content

\* the first event of a city's list with relevance High, <<>> when none
FirstHighEvent(city) ==
    LET events == IF city \in DOMAIN LocalEvents THEN LocalEvents[city] ELSE <<>>
        high == {i \in 1..Len(events) : events[i].relevance = "High"}
    IN IF high = {} THEN <<>> ELSE <<events[Least(high)]>>

ClosingSentences ==
    {"\n\nJoin thousands of professionals who've transformed their careers while maintaining work-life balance.",
     "\n\nJoin the fast-track to success with industry-leading curriculum and expert mentorship."}

\* C12: for a city with a localization entry and a High-relevance event the
\* localized body is the original body, the industries clause, the clause
\* naming the first High-relevance event, the landmark clause and a closing
\* sentence, in this order.
C12_BodyClauses ==
    (LocalizedCall /\ FirstHighEvent(args.city) # <<>>
       /\ "email_body" \in DOMAIN args.content) =>
        LET c == CityContexts[args.city]
        IN \E closing \in ClosingSentences :
               res.email_body =
                   args.content.email_body
                   \o "\n\nWith " \o c.key_industries[1] \o ", " \o c.key_industries[2]
                   \o " leading " \o c.nickname \o "'s growth"
                   \o ", and upcoming events like " \o FirstHighEvent(args.city)[1].name
                   \o " in areas like " \o c.local_references[1]
                   \o closing

\* C13: for a city with a localization entry, regional_version is the
\* template sentence of the city's phrases when the city has a phrase-table
\* entry, and the "not available" marker only when it has none.
C13_RegionalVersion ==
    LocalizedCall =>
        IF args.city \in DOMAIN RegionalLanguages
        THEN LET w == RegionalLanguages[args.city]
             IN res.regional_version =
                    w.hello \o "! " \o CityContexts[args.city].nickname \o " mein "
                    \o w.opportunity \o " hai! Apna " \o w.career
                    \o " transform karo aur " \o w.success \o " pao upGrad ke saath!"
        ELSE res.regional_version = "Regional version not available for this city."

\* s with its first "!" replaced by " - Act Fast!"
ReplaceFirstBang(s) ==
    LET bangs == {i \in 1..Len(s) : At(s, i) = "!"}
    IN IF bangs = {} THEN s
       ELSE SubSeq(s, 1, Least(bangs) - 1) \o " - Act Fast!" \o From(s, Least(bangs) + 1)

\* C14: for a city with a localization entry the localized subject is the
\* input subject, with " | nickname" appended unless the nickname is a
\* substring, then with only its first "!" replaced by " - Act Fast!" when
\* the market sentiment mentions high competition, cut to 60 characters.
C14_SubjectFirstBang ==
    (LocalizedCall /\ "email_subject" \in DOMAIN args.content) =>
        LET c == CityContexts[args.city]
            subject == args.content.email_subject
            named == IF Contains(subject, c.nickname) THEN subject
                     ELSE subject \o " | " \o c.nickname
            urged == IF Contains(Lower(c.market_sentiment), "high competition")
                     THEN ReplaceFirstBang(named) ELSE named
        IN /\ res.email_subject = Slice(urged, 60)
           /\ Len(res.email_subject) <= 60

\* the text of a post outside its #hashtag tokens
PlainText(pieces) ==
    Concat([i \in 1..Len(pieces) |-> IF pieces[i].tag THEN "" ELSE pieces[i].text])

\* C15: for a city with a localization entry the localized social post is
\* the input post without its #hashtag tokens, then the city's first three
\* hashtags, then one landmark hashtag only when the post is then shorter
\* than 200 characters, and it is at most 280 characters long.
C15_SocialHashtags ==
    (LocalizedCall /\ "social_post" \in DOMAIN args.content) =>
        LET c == CityContexts[args.city]
            plain == Strip(PlainText(PiecesOf(args.content.social_post)))
            tagged == plain \o " " \o c.hashtags[1] \o " " \o c.hashtags[2]
                          \o " " \o c.hashtags[3]
            landmark == " #" \o RemoveSpaces(c.local_references[1])
        IN /\ Len(res.social_post) <= 280
           /\ res.social_post = IF Len(tagged) < 200 THEN Slice(tagged \o landmark, 280)
                                ELSE Slice(tagged, 280)

C15_Witness ==
    /\ LocalizedCall
    /\ args.city = "Pune"
    /\ "social_post" \in DOMAIN args.content
    /\ Contains(args.content.social_post, "#AI_ML2")
    /\ res.social_post =
           "~~~~ Join  now  ! # #PuneTech #OxfordOfTheEast #PuneIT #Hinjewadi"

-----------------------------------------------------------------------------
(* Variants of one generate_campaign response                              *)

\* C16: generate_campaign never returns more than 10 variants; a request
\* for n variants, 1 <= n <= 10, gets exactly n, generated with
\* variant_number 1..n in this order, and a request for more than 10 gets
\* exactly 10.
C16_VariantCap ==
    op = "real_generate_campaign" =>
        /\ Len(res.variants) <= VariantCap
        /\ (args.request.variants # <<>> /\ args.request.variants[1] >= 1) =>
               LET n == args.request.variants[1]
                   request == args.request
                   primary_city == IF request.cities # <<>> THEN request.cities[1]
                                   ELSE request.city
                   market_data == RealCityInsights(primary_city)
               IN /\ Len(res.variants) = (IF n <= VariantCap THEN n ELSE VariantCap)
                  /\ ~gemini_api_key =>
                         \A i \in 1..Len(res.variants) :
                             res.variants[i] =
                                 RealFallbackContent(request.course, primary_city,
                                                     market_data.positions_available,
                                                     market_data.companies_hiring,
                                                     request.tone_scale[1], i)

-----------------------------------------------------------------------------
(* Health endpoints                                                        *)

HealthFields == {"status", "version", "timestamp", "services"}

\* C17: a health endpoint always answers, with status, version, timestamp
\* and services; its text-generation flag is healthy iff the text key is
\* configured, its image flag iff the image key is configured, and its data
\* flag iff the hiring table was loaded.
C17_HealthFlags ==
    /\ op = "real_health" =>
           /\ res.status_code = 200
           /\ HealthFields \subseteq DOMAIN res
           /\ res.services.ai_engine = "healthy" <=> gemini_api_key
           /\ res.services.image_generator = "healthy" <=> stability_api_key
           /\ res.services.market_intelligence = "healthy" <=> hiring_data.loaded
    /\ op = "router_health" =>
           /\ res.status_code = 200
           /\ HealthFields \subseteq DOMAIN res
           /\ res.services.ai_engine.status = "healthy" <=> gemini_api_key
           /\ res.services.market_intelligence.status = "healthy"
                  <=> hiring_df = HiringTable

-----------------------------------------------------------------------------
(* The heuristic predictor                                                 *)

DigitOf(c) == CHOOSE d \in 0..9 : ToString(d) = c

\* the number a string of decimal digits denotes
RECURSIVE NatOf(_)
NatOf(s) ==
    IF s = "" THEN 0
    ELSE 10 * NatOf(SubSeq(s, 1, Len(s) - 1)) + DigitOf(SubSeq(s, Len(s), Len(s)))

\* "25.2%" or "4.8x" in tenths: the digits before the unit, without the point
TenthsOf(s) ==
    NatOf(SubSeq(s, 1, Len(s) - 3)) * 10 + DigitOf(SubSeq(s, Len(s) - 1, Len(s) - 1))

\* the amount after the currency sign
CostOf(s) == NatOf(SubSeq(s, 4, Len(s)))

ScoreOf(market_context) ==
    Get(Get(market_context, "city_data", EmptyDict), "market_score", 500)

\* C18: for a fixed course and two market scores a <= b of [0, 10], the
\* predicted ctr, conversion rate and ROAS for b are at least those for a,
\* and the predicted cost per conversion for b is at most that for a.
C18_MonotoneInScore ==
    op = "predict_performance" =>
        \A a \in MarketScores :
            a <= ScoreOf(args.market_context) =>
                LET lo == PredictPerformance(args.course, args.city,
                                             args.campaign_type, ScoreContext(a))
                IN /\ TenthsOf(lo.ctr) <= TenthsOf(res.ctr)
                   /\ TenthsOf(lo.conversion_rate) <= TenthsOf(res.conversion_rate)
                   /\ TenthsOf(lo.roas) <= TenthsOf(res.roas)
                   /\ CostOf(res.cost_per_conversion) <= CostOf(lo.cost_per_conversion)

\* the top score against the bottom one: every figure moves strictly
C18_Witness ==
    /\ op = "predict_performance"
    /\ args.course = "AI/ML"
    /\ ScoreOf(args.market_context) = 1000
    /\ res = [ctr |-> "25.2%", conversion_rate |-> "9.8%", roas |-> "6.2x",
              cost_per_conversion |-> "~~~160"]
    /\ PredictPerformance("AI/ML", "Bangalore", "Email", ScoreContext(0))
           = [ctr |-> "16.8%", conversion_rate |-> "6.5%", roas |-> "4.2x",
              cost_per_conversion |-> "~~~240"]

-----------------------------------------------------------------------------
(* Skill aggregates of the market intelligence engine                      *)

Occurrences(items, x) == Cardinality({i \in 1..Len(items) : items[i] = x})

FirstAt(items, x) == Least({i \in 1..Len(items) : items[i] = x})

\* x is more frequent than y, or as frequent and seen first
RanksBefore(items, x, y) ==
    \/ Occurrences(items, x) > Occurrences(items, y)
    \/ /\ Occurrences(items, x) = Occurrences(items, y)
       /\ FirstAt(items, x) < FirstAt(items, y)

\* top lists the limit best-ranked skills of items, best first, each with
\* its number of occurrences
IsTopSkills(top, items, limit) ==
    LET all == {items[i] : i \in 1..Len(items)}
        listed == {top[i].skill : i \in 1..Len(top)}
    IN /\ Len(top) <= limit
       /\ Len(top) = Min(limit, Cardinality(all))
       /\ listed \subseteq all
       /\ \A i \in 1..Len(top) : top[i].count = Occurrences(items, top[i].skill)
       /\ \A i, j \in 1..Len(top) :
              i < j => RanksBefore(items, top[i].skill, top[j].skill)
       /\ \A x \in listed, y \in all \ listed : RanksBefore(items, x, y)

\* the rows a city lookup matches
MatchedRows(city) ==
    LET Matches(r) == StrContains(r.city, city)
    IN SelectSeq(hiring_df.rows, Matches)

\* C19: the top skills of a city lookup are at most 10 (at most 20 for the
\* global skill demand): the skills with the highest occurrence counts over
\* the matched rows after splitting on commas, trimming and title-casing,
\* in descending count, skills of equal count in order of first occurrence.
C19_TopSkills ==
    /\ (op = "mi_city_insights" /\ ~res.raised /\ "top_skills" \in DOMAIN res.value) =>
           IsTopSkills(res.value.top_skills, AllSkills(MatchedRows(args.city)), 10)
    /\ op = "skill_demand" => IsTopSkills(res, AllSkills(hiring_df.rows), 20)

\* fourteen distinct skills in the two Bangalore rows, ten listed; Python
\* and Sql (twice each) first, then the once-seen skills in row order
C19_Witness ==
    /\ op = "mi_city_insights"
    /\ args.city = "Bangalore"
    /\ ~res.raised
    /\ "top_skills" \in DOMAIN res.value
    /\ Cardinality({AllSkills(MatchedRows("Bangalore"))[i] :
                        i \in 1..Len(AllSkills(MatchedRows("Bangalore")))}) = 14
    /\ res.value.top_skills =
           << [skill |-> "Python", count |-> 2], [skill |-> "Sql", count |-> 2],
              [skill |-> "Aws", count |-> 1], [skill |-> "Docker", count |-> 1],
              [skill |-> "Kafka", count |-> 1], [skill |-> "Spark", count |-> 1],
              [skill |-> "Scala", count |-> 1], [skill |-> "Rust", count |-> 1],
              [skill |-> "Go", count |-> 1], [skill |-> "Java", count |-> 1] >>

-----------------------------------------------------------------------------
(* Runs without data                                                       *)

\* C20: when the hiring data fails to load, the synthetic table is generated
\* with a fixed seed: a later run without data holds the same table as the
\* run before it, and every city lookup returns the same result in both.
C20_SameTableEveryRun ==
    [][/\ hiring_df' = hiring_df
       /\ \A city \in LookupCities :
              MICityInsightsOf(hiring_df', city) = MICityInsightsOf(hiring_df, city)]_vars

-----------------------------------------------------------------------------
(* Content of generate_campaign_content by path                            *)

\* C22: with no generative model configured, generate_campaign_content
\* returns the template fallback of the call's own inputs: subject, body,
\* social post and benefits are those of the market context passed in, and
\* body and benefits name its total_positions, not the default figure.
C22_FallbackEmbedsContext ==
    (/\ op = "generate_campaign_content"
     /\ ~model
     /\ "total_positions" \in DOMAIN Get(args.market_context, "city_data", EmptyDict)) =>
        LET own == EngineFallbackContent(args.course, args.city, args.campaign_type,
                                         args.market_context)
            positions == ToString(args.market_context.city_data.total_positions) \o "+"
        IN /\ res.content.email_subject = own.email_subject
           /\ res.content.email_body = own.email_body
           /\ res.content.social_post = own.social_post
           /\ res.content.key_benefits = own.key_benefits
           /\ Contains(res.content.email_body, positions)
           /\ Contains(res.content.key_benefits[1], positions)

PredictionKeys == {"ctr", "conversion_rate", "roas", "cost_per_conversion"}

\* C26: every value returned by generate_campaign_content carries a
\* predictions entry with ctr, conversion_rate, roas and cost_per_conversion,
\* whether the model call succeeded, no model is configured or the model
\* call raised; the predictions of the campaign response are never empty.
C26_PredictionsOnEveryPath ==
    /\ op = "generate_campaign_content" =>
           /\ "predictions" \in DOMAIN res.content
           /\ PredictionKeys \subseteq DOMAIN res.content.predictions
    /\ (op = "app_generate_campaign" /\ res.status_code = 200) =>
           PredictionKeys \subseteq DOMAIN res.predictions

-----------------------------------------------------------------------------
(* Number and difference of the variants                                   *)

\* C27: for every integer value of the request's variants field, 0 and
\* negative numbers included, the generate_campaign response that reports
\* success contains at least one content variant.
C27_AtLeastOneVariant ==
    (op = "real_generate_campaign" /\ res.status_code = 200) =>
        Len(res.variants) >= 1

\* C28: in fallback mode (no text key) the variants of one generate_campaign
\* response are pairwise different, for every requested count up to the cap.
C28_VariantsPairwiseDifferent ==
    (/\ op = "real_generate_campaign"
     /\ ~gemini_api_key
     /\ res.status_code = 200
     /\ args.request.variants # <<>>
     /\ args.request.variants[1] \in 1..10) =>
        \A i, j \in 1..Len(res.variants) :
            i < j => res.variants[i] # res.variants[j]

-----------------------------------------------------------------------------
(* Overall status of the router health check                               *)

\* C29: in the router health check the overall status is "healthy" only if
\* every service entry it reports has status healthy; whenever a reported
\* entry is "unhealthy" the overall status is "degraded".
C29_OverallFollowsServices ==
    op = "router_health" =>
        LET entries == {res.services.ai_engine, res.services.market_intelligence,
                        res.services.configuration}
        IN /\ res.status = "healthy" => \A e \in entries : e.status = "healthy"
           /\ (\E e \in entries : e.status = "unhealthy") => res.status = "degraded"

-----------------------------------------------------------------------------
(* The translation call of generate_content                                *)

\* C30: in generate_content with a text key and language "Hindi" or "Multi",
\* a primary model call that succeeds makes the returned content begin with
\* the primary model's text, also when the translation call fails; the
\* template fallback is returned only when the primary call itself fails.
C30_PrimaryTextKept ==
    (/\ op = "generate_content"
     /\ gemini_api_key
     /\ args.language \in {<<"Hindi">>, <<"Multi">>}
     /\ ~res.raised
     /\ ~args.primary_fails) =>
        /\ \E text \in AiTexts : SubSeq(res.value.content, 1, Len(text)) = text
        /\ res.value.path # "except"

-----------------------------------------------------------------------------
(* The candidates optimize_campaign returns                                *)

\* the score predict_performance gives the parameters of the call in flight
\* with one candidate put in
CandidateScore(c) ==
    Get(OptPredictPerformance(optimizer, model_files,
                              WithKey(args.base_params, c.parameter, c.value)).result,
        "predicted_performance_score", 0)

\* the score predict_performance gives the base parameters of the call in flight
BaselineScore ==
    Get(OptPredictPerformance(optimizer, model_files, args.base_params).result,
        "predicted_performance_score", 0)

\* the candidates of the sweep whose score lies above the baseline
ImprovingCandidates ==
    {i \in 1..Len(OptimizationCandidates) :
        CandidateScore(OptimizationCandidates[i]) > BaselineScore}

\* the positions in the sweep of the candidates that were returned
ReturnedCandidates ==
    {i \in 1..Len(OptimizationCandidates) :
        \E k \in 1..Len(res.optimizations) :
            /\ res.optimizations[k].parameter = OptimizationCandidates[i].parameter
            /\ res.optimizations[k].value = OptimizationCandidates[i].value}

\* C21: optimize_campaign returns at most 5 candidates of its sweep (the
\* four content themes, then the four platforms, each put into the base
\* parameters); each carries its predicted score and a strictly positive
\* improvement over the baseline prediction; they are ordered by
\* improvement from largest to smallest, and they are the best ones: a
\* candidate left out improves no more than any returned one, and one with
\* a positive improvement is left out only when 5 are returned.
C21_TopFiveImprovements ==
    (op = "optimize_campaign" /\ "optimizations" \in DOMAIN res) =>
        LET opts == res.optimizations
        IN /\ Len(opts) <= OptimizationLimit
           /\ res.base_score = BaselineScore
           /\ \A k \in 1..Len(opts) :
                  /\ opts[k].improvement > 0
                  /\ \E i \in 1..Len(OptimizationCandidates) :
                         /\ opts[k].parameter = OptimizationCandidates[i].parameter
                         /\ opts[k].value = OptimizationCandidates[i].value
                         /\ opts[k].predicted_score =
                                CandidateScore(OptimizationCandidates[i])
                  /\ opts[k].improvement = opts[k].predicted_score - BaselineScore
           /\ \A k, l \in 1..Len(opts) :
                  k < l => /\ opts[k].improvement >= opts[l].improvement
                           /\ <<opts[k].parameter, opts[k].value>>
                                  # <<opts[l].parameter, opts[l].value>>
           /\ ReturnedCandidates \subseteq ImprovingCandidates
           /\ \A i \in ImprovingCandidates \ ReturnedCandidates :
                  /\ Len(opts) = OptimizationLimit
                  /\ \A k \in 1..Len(opts) :
                         opts[k].improvement >=
                             CandidateScore(OptimizationCandidates[i]) - BaselineScore

\* a sweep with more than 5 improving candidates, of both dimensions and
\* with different improvements, has returned its 5
C21_Witness ==
    /\ op = "optimize_campaign"
    /\ "optimizations" \in DOMAIN res
    /\ Len(res.optimizations) = OptimizationLimit
    /\ Cardinality(ImprovingCandidates) > OptimizationLimit
    /\ {res.optimizations[k].parameter : k \in 1..Len(res.optimizations)}
           = {"content_theme", "platform"}
    /\ res.optimizations[1].improvement > res.optimizations[5].improvement

-----------------------------------------------------------------------------
(* The shared objects under the request-time operations                    *)

\* C23: no request-time operation (localize_content, a city lookup,
\* predict_performance, optimize_campaign) changes the market table or the
\* optimizer's encoders, scaler and trained flag.  (The localization table
\* is a definition of this module: no step can change it.)
C23_SharedObjectsReadOnly ==
    [][/\ hiring_df' = hiring_df
       /\ optimizer'.encoders = optimizer.encoders
       /\ optimizer'.scaler = optimizer.scaler
       /\ optimizer'.is_trained = optimizer.is_trained]_vars

-----------------------------------------------------------------------------
(* Categorical values that never occurred in training                      *)

\* the classes the training found for a categorical feature: those of its
\* encoder when the scaler was fitted on the column, none otherwise
TrainedClasses(f) ==
    IF f \in SeqToSet(optimizer.scaler.feature_names) /\ f \in DOMAIN optimizer.encoders
    THEN optimizer.encoders[f] ELSE <<>>

\* the categorical parameters of the call in flight whose value never
\* occurred in training
UnseenParameters ==
    {f \in SeqToSet(CategoricalFeatures) \cap DOMAIN args.campaign_params :
        args.campaign_params[f] \notin SeqToSet(TrainedClasses(f))}

\* the parameters of the call in flight with the first class of the encoder
\* in place of every such value
FirstClassParameters ==
    [f \in DOMAIN args.campaign_params |->
        IF f \in UnseenParameters THEN optimizer.encoders[f][1]
        ELSE args.campaign_params[f]]

\* C24: predict_performance on a trained model, given a categorical value
\* that never occurred in training, returns no error, and what it returns is
\* what it returns for the first class of that feature's encoder.
C24_UnseenValueAsFirstClass ==
    (/\ op = "optimizer_predict_performance"
     /\ optimizer.is_trained
     /\ UnseenParameters # {}) =>
        /\ "error" \notin DOMAIN res
        /\ res = OptPredictPerformance(optimizer, model_files,
                                       FirstClassParameters).result

-----------------------------------------------------------------------------
(* performance_feedback.json over calls and restarts                       *)

\* C25: the persisted feedback log is append-only.  No step, a restart of
\* the process included, removes or changes an entry of the log, and a call
\* of add_performance_feedback adds exactly one entry to it (a call whose
\* write succeeds, no earlier write of the run having failed).
C25_FeedbackLogAppendOnly ==
    [][/\ Len(feedback_file') >= Len(feedback_file)
       /\ SubSeq(feedback_file', 1, Len(feedback_file)) = feedback_file
       /\ (/\ op = "idle"
           /\ op' = "add_performance_feedback"
           /\ args'.write_ok
           /\ Len(optimizer.performance_history) <= Len(feedback_file)) =>
              Len(feedback_file') = Len(feedback_file) + 1]_vars

====
